---------------------------- MODULE Spec2Model ----------------------------
(***************************************************************************)
(* A model of the esnode-core agent:                                       *)
(*   - the device scheduler (ESNODE-Orchestrator/src/lib.rs) behind its    *)
(*     HTTP routes and their mounting (agent-core/src/http.rs, lib.rs);    *)
(*   - the local time-series buffer and its pruner (agent-core/src/tsdb.rs);*)
(*   - the status store (agent-core/src/state.rs);                         *)
(*   - the counters of the collectors (agent-core/src/collectors).         *)
(*                                                                         *)
(* f64 values are modelled as decimal floating point with a four-digit     *)
(* mantissa and the exponent range of an IEEE double (overflow to an       *)
(* infinity above 1e308, underflow to zero below 1e-324), with NaN and     *)
(* the two infinities.  Zero is unsigned.  Rounding is to nearest, ties    *)
(* to even.                                                                *)
(***************************************************************************)
EXTENDS Integers, Sequences, FiniteSets, TLC

(***************************************************************************)
(* f64                                                                     *)
(***************************************************************************)
NaN == [k |-> "nan", m |-> 0, e |-> 0]

PosInf == [k |-> "inf", m |-> 1, e |-> 0]

NegInf == [k |-> "inf", m |-> -1, e |-> 0]

Zero == [k |-> "fin", m |-> 0, e |-> 0]

Abs(n) == IF n < 0 THEN -n ELSE n

Sgn(n) == IF n < 0 THEN -1 ELSE IF n > 0 THEN 1 ELSE 0

RECURSIVE Pow10(_)
Pow10(n) == IF n <= 0 THEN 1 ELSE 10 * Pow10(n - 1)

RECURSIVE NumDigits(_)
NumDigits(n) == IF n < 10 THEN 1 ELSE 1 + NumDigits(n \div 10)

\* The value sign * mag * 10^e, with the exponent range of a double.
Ranged(sign, mag, e) ==
    IF e + 3 > 308 THEN (IF sign < 0 THEN NegInf ELSE PosInf)
    ELSE IF e + 3 < -324 THEN Zero
    ELSE [k |-> "fin", m |-> sign * mag, e |-> e]

\* The double nearest to the integer m times 10^e: the mantissa is brought to
\* four digits, rounding to nearest with ties to even.
Norm(m, e) ==
    IF m = 0 THEN Zero
    ELSE LET a == Abs(m)
             n == NumDigits(a)
         IN  IF n <= 4
             THEN Ranged(Sgn(m), a * Pow10(4 - n), e - (4 - n))
             ELSE LET p    == Pow10(n - 4)
                      q    == a \div p
                      r    == a % p
                      up   == (2 * r > p) \/ (2 * r = p /\ q % 2 = 1)
                      q2   == IF up THEN q + 1 ELSE q
                  IN  IF q2 = 10000
                      THEN Ranged(Sgn(m), 1000, e + (n - 4) + 1)
                      ELSE Ranged(Sgn(m), q2, e + (n - 4))

\* The literal m * 10^e.
F(m, e) == Norm(m, e)

IsNaN(a) == a.k = "nan"

IsFinite(a) == a.k = "fin"

FNeg(a) == IF a.k = "nan" THEN NaN ELSE [a EXCEPT !.m = -a.m]

FMul(a, b) ==
    IF a.k = "nan" \/ b.k = "nan" THEN NaN
    ELSE IF a.k = "inf" \/ b.k = "inf"
         THEN IF a.m = 0 \/ b.m = 0 THEN NaN
              ELSE IF Sgn(a.m) * Sgn(b.m) < 0 THEN NegInf ELSE PosInf
         ELSE Norm(a.m * b.m, a.e + b.e)

FDiv(a, b) ==
    IF a.k = "nan" \/ b.k = "nan" THEN NaN
    ELSE IF a.k = "inf"
         THEN IF b.k = "inf" THEN NaN
              ELSE IF Sgn(a.m) * (IF b.m < 0 THEN -1 ELSE 1) < 0 THEN NegInf ELSE PosInf
         ELSE IF b.k = "inf" THEN Zero
         ELSE IF b.m = 0
              THEN IF a.m = 0 THEN NaN
                   ELSE IF a.m < 0 THEN NegInf ELSE PosInf
              ELSE IF a.m = 0 THEN Zero
              ELSE LET num    == Abs(a.m) * 100000
                       q      == num \div Abs(b.m)
                       sticky == IF num % Abs(b.m) = 0 THEN 0 ELSE 1
                   IN  Norm(Sgn(a.m) * Sgn(b.m) * (q * 10 + sticky), a.e - b.e - 6)

FAdd(a, b) ==
    IF a.k = "nan" \/ b.k = "nan" THEN NaN
    ELSE IF a.k = "inf"
         THEN IF b.k = "inf" /\ b.m # a.m THEN NaN ELSE a
         ELSE IF b.k = "inf" THEN b
         ELSE IF a.m = 0 THEN b
         ELSE IF b.m = 0 THEN a
         ELSE LET hi == IF a.e >= b.e THEN a ELSE b
                  lo == IF a.e >= b.e THEN b ELSE a
                  d  == hi.e - lo.e
              IN  IF d <= 5
                  THEN Norm(hi.m * Pow10(d) + lo.m, lo.e)
                  ELSE Norm(hi.m * 100 + Sgn(lo.m), hi.e - 2)

FSub(a, b) == FAdd(a, FNeg(b))

\* a < b; false when either is NaN.
FLt(a, b) ==
    IF a.k = "nan" \/ b.k = "nan" THEN FALSE
    ELSE IF a.k = "inf" THEN a.m < 0 /\ ~(b.k = "inf" /\ b.m < 0)
    ELSE IF b.k = "inf" THEN b.m > 0
    ELSE IF Sgn(a.m) # Sgn(b.m) THEN Sgn(a.m) < Sgn(b.m)
    ELSE IF a.m = 0 THEN FALSE
    ELSE IF a.m > 0 THEN a.e < b.e \/ (a.e = b.e /\ a.m < b.m)
    ELSE a.e > b.e \/ (a.e = b.e /\ a.m < b.m)

FGt(a, b) == FLt(b, a)

\* a >= b; false when either is NaN.
FGe(a, b) == a.k # "nan" /\ b.k # "nan" /\ ~FLt(a, b)

FLe(a, b) == FGe(b, a)

\* f64::min and f64::max: a NaN operand is ignored.
FMin(a, b) == IF a.k = "nan" THEN b ELSE IF b.k = "nan" THEN a ELSE IF FLt(b, a) THEN b ELSE a

FMax(a, b) == IF a.k = "nan" THEN b ELSE IF b.k = "nan" THEN a ELSE IF FLt(a, b) THEN b ELSE a

(***************************************************************************)
(* Option values                                                           *)
(***************************************************************************)
Some(v) == [some |-> TRUE, v |-> v]

NoneStr == [some |-> FALSE, v |-> ""]

NoneKinds == [some |-> FALSE, v |-> {}]

(***************************************************************************)
(* Input domains of the scheduler.  Every number is a finite f64, which is *)
(* what the JSON bodies of /register and /submit can carry.                *)
(***************************************************************************)
DeviceIds == {"A", "B"}

Device(id, kind, peak, idle, max, load) ==
    [id |-> id, kind |-> kind, peak_flops_tflops |-> peak, mem_gb |-> F(80, 0),
     power_watts_idle |-> idle, power_watts_max |-> max, current_load |-> load,
     last_seen |-> 0]

NoDevice == Device("", "Cpu", Zero, Zero, Zero, Zero)

\* The bodies a client may post to /register: the two devices of the placement
\* example (loads 0.1), of the load-cap example (loads 0.9 and 0.96), a device that
\* reports no peak throughput, one that reports a negative one, and a twin of A's
\* first body under B's id (equal scores), and B exactly at the load cap.
DeviceInputs ==
    { Device("A", "Gpu", F(100, 0), F(50, 0), F(250, 0), F(1, -1)),
      Device("B", "Gpu", F(50, 0), F(40, 0), F(150, 0), F(1, -1)),
      Device("A", "Gpu", F(100, 0), F(50, 0), F(250, 0), F(9, -1)),
      Device("B", "Gpu", F(50, 0), F(40, 0), F(150, 0), F(96, -2)),
      Device("A", "Cpu", Zero, F(10, 0), F(20, 0), Zero),
      Device("B", "Cpu", F(-1, 0), F(10, 0), F(20, 0), F(1, -1)),
      Device("B", "Gpu", F(100, 0), F(50, 0), F(250, 0), F(1, -1)),
      Device("B", "Gpu", F(50, 0), F(40, 0), F(150, 0), F(95, -2)) }

Task(id, flops, bytes, class, kinds) ==
    [id |-> id, est_flops |-> flops, est_bytes |-> bytes, latency_class |-> class,
     preferred_kinds |-> kinds]

NoTask == Task(0, Zero, Zero, "Low", NoneKinds)

\* The bodies a client may post to /submit, before the id is filled in.
TaskShapes ==
    { Task(0, F(1, 13), F(1, 9), "High", NoneKinds),
      Task(0, F(1, 13), F(1, 9), "High", Some({"Gpu"})),
      Task(0, F(2, 14), F(1, 9), "Low", Some({"Cpu"})),
      Task(0, F(1, 303), Zero, "Medium", NoneKinds) }

\* The number of tasks a run submits.
MaxSubmits == 2

(***************************************************************************)
(* Configuration                                                           *)
(***************************************************************************)
OrchestratorConfig(enabled, allow_public, token) ==
    [enabled |-> enabled, allow_public |-> allow_public, token |-> token]

NoOrchestratorConfig == [some |-> FALSE, v |-> OrchestratorConfig(FALSE, FALSE, NoneStr)]

\* A listen address: an IPv4 or IPv6 literal with a port, or a host name with a port.
ListenV4(octets) == [form |-> "v4", ip |-> octets, name |-> ""]

ListenV6(segments) == [form |-> "v6", ip |-> segments, name |-> ""]

ListenName(name) == [form |-> "name", ip |-> <<>>, name |-> name]

ListenAddresses ==
    { ListenV4(<<0, 0, 0, 0>>), ListenV4(<<127, 0, 0, 1>>), ListenV4(<<192, 168, 1, 10>>),
      ListenV6(<<0, 0, 0, 0, 0, 0, 0, 1>>), ListenV6(<<0, 0, 0, 0, 0, 0, 0, 0>>),
      ListenName("localhost") }

Tokens == {NoneStr, Some("s3cret")}

AgentConfigs ==
    { [listen_address |-> l, orchestrator |-> o] :
        l \in ListenAddresses,
        o \in {NoOrchestratorConfig} \cup
              { Some(OrchestratorConfig(en, ap, tok)) :
                    en \in BOOLEAN, ap \in BOOLEAN, tok \in Tokens } }

\* The Authorization header of a request.
AuthHeaders == {NoneStr, Some("Bearer s3cret"), Some("bearer s3cret"), Some("s3cret")}

\* The headers of the scheduler's own clients: none, or the configured token.
ClientHeaders == {NoneStr, Some("Bearer s3cret")}

VARIABLES
    config,         \* AgentConfig: listen_address and the orchestrator block
    devices,        \* Orchestrator.devices: id -> Device
    dev_order,      \* the iteration order of Orchestrator.devices (a HashMap)
    pending_tasks,  \* Orchestrator.pending_tasks
    submitted,      \* the number of tasks accepted by /submit so far
    obs,            \* the last operation and the response it produced
    current,        \* LocalTsdb.current: the open BlockWriter, if any
    disk,           \* the block directories under LocalTsdbConfig.path
    accepted,       \* the samples write_samples has accepted, in order
    tsdb_obs,       \* the last LocalTsdb operation and what it returned
    tsdb_config,    \* LocalTsdb.config: retention_hours and max_disk_mb
    pruned,         \* the names of the directories prune has removed so far
    status_state,   \* the fields of the StatusState
    snap,           \* the call of StatusState::snapshot in progress, or the one returned
    calls,          \* the number of setter calls made on the StatusState
    recorded,       \* the errors passed to record_error, in call order
    collectors,     \* the previous readings the collectors keep between ticks
    registry,       \* the counters of the MetricsRegistry that the collectors move
    collected,      \* the number of collect calls made
    clock,          \* the wall clock, in milliseconds
    ticker,         \* the Interval of the collection task: its period and next deadline
    tick_loop,      \* the position and the locals of the collection task
    healthy,        \* the AtomicBool shared by the collection task and /healthz
    agent_metrics,  \* agent_errors_total, agent_scrape_duration_seconds, degradation_score
    health_obs,     \* the status code of the last answer of /healthz, 0 before the first
    run,            \* Agent::run: its phase and whether the pruner task is alive
    event_channel,  \* the EventRecords in the mpsc channel of the GPU collector
    event_worker,   \* the NVML event worker: its position and the record it is sending
    config_file,    \* esnode.toml: the keys it holds, or absent
    cli_config,     \* an AgentConfig in memory, to which overrides are applied
    cli_obs,        \* the last command or apply_overrides call and what it returned
    app,            \* the AppCollector: warned, last_tokens, last_ts
    app_log,        \* the log records of the AppCollector, in order
    tsdb_tasks      \* the concurrent callers of the LocalTsdb and the holder of its mutex

orch_vars == <<devices, dev_order, pending_tasks>>

agent_vars == <<config, devices, dev_order, pending_tasks, submitted, obs>>

tsdb_vars == <<current, disk, accepted, tsdb_obs, tsdb_config, pruned>>

status_vars == <<status_state, snap, calls, recorded>>

collector_vars == <<collectors, registry, collected>>

loop_vars == <<clock, ticker, tick_loop, healthy, agent_metrics, health_obs, run>>

event_vars == <<event_channel, event_worker>>

cli_vars == <<config_file, cli_config, cli_obs>>

app_vars == <<app, app_log>>

conc_vars == <<tsdb_tasks>>

vars == <<config, devices, dev_order, pending_tasks, submitted, obs,
          current, disk, accepted, tsdb_obs, tsdb_config, pruned,
          status_state, snap, calls, recorded, collectors, registry, collected,
          clock, ticker, tick_loop, healthy, agent_metrics, health_obs, run,
          event_channel, event_worker, config_file, cli_config, cli_obs, app, app_log,
          tsdb_tasks>>

(***************************************************************************)
(* Orchestrator                                                            *)
(***************************************************************************)
alpha_perf == F(1, 0)

beta_energy == F(7, -1)

gamma_congestion == F(5, -1)

delta_data == F(3, -1)

\* f64::mul_add, with the product rounded before the sum.
MulAdd(a, b, c) == FAdd(FMul(a, b), c)

LatencyWeight(class) ==
    CASE class = "High" -> F(1, 0)
      [] class = "Medium" -> F(7, -1)
      [] class = "Low" -> F(4, -1)

TimeSeconds(task, dev) ==
    LET peak_flops == FMul(dev.peak_flops_tflops, F(1, 12))
        eff_flops  == FMul(peak_flops, FMax(FSub(F(1, 0), dev.current_load), F(1, -1)))
    IN  FDiv(task.est_flops, FMax(eff_flops, F(1, -6)))

perf_score(task, dev) ==
    FMul(FNeg(TimeSeconds(task, dev)), LatencyWeight(task.latency_class))

energy_score(task, dev) ==
    LET effective_load == FMin(FAdd(dev.current_load, F(2, -1)), F(1, 0))
        power_watts    == MulAdd(FSub(dev.power_watts_max, dev.power_watts_idle),
                                 effective_load, dev.power_watts_idle)
    IN  FMul(power_watts, TimeSeconds(task, dev))

congestion_penalty(dev) == FMul(dev.current_load, dev.current_load)

data_movement_cost(task, dev) == FDiv(task.est_bytes, F(1, 9))

device_allowed(task, dev) ==
    ~task.preferred_kinds.some \/ dev.kind \in task.preferred_kinds.v

LoadCap == F(95, -2)

\* Overloaded with the cap itself let through (a seeded fault).
OverloadedAboveCap(dev) == FGt(dev.current_load, LoadCap)

Overloaded(dev) == FGe(dev.current_load, LoadCap)

Score(task, dev) ==
    MulAdd(delta_data, FNeg(data_movement_cost(task, dev)),
           MulAdd(gamma_congestion, FNeg(congestion_penalty(dev)),
                  MulAdd(alpha_perf, perf_score(task, dev),
                         FNeg(FMul(beta_energy, energy_score(task, dev))))))

Better(score, best_score) == FGt(score, best_score)

NoBest == [id |-> NoneStr, score |-> NegInf]

\* One iteration of the loop of pick_device_for_task: dev is skipped, or its score is
\* compared with the best so far.
Consider(dev, score, best) ==
    IF Better(score, best.score) THEN [id |-> Some(dev.id), score |-> score] ELSE best

Visit(task, dev, best) ==
    IF ~device_allowed(task, dev) THEN best
    ELSE IF Overloaded(dev) THEN best
    ELSE Consider(dev, Score(task, dev), best)

RECURSIVE PickLoop(_, _, _, _)
PickLoop(devs, rest, task, best) ==
    IF rest = <<>> THEN best.id
    ELSE PickLoop(devs, Tail(rest), task, Visit(task, devs[Head(rest)], best))

pick_device_for_task(devs, order, task) == PickLoop(devs, order, task, NoBest)

LoadIncrease(task, dev) ==
    FMin(FDiv(task.est_flops, FMul(dev.peak_flops_tflops, F(1, 12))), F(5, -1))

NewLoad(task, dev) == FMin(FAdd(dev.current_load, LoadIncrease(task, dev)), F(1, 0))

register_assignment(devs, device_id, task) ==
    IF device_id \in DOMAIN devs
    THEN [devs EXCEPT ![device_id].current_load = NewLoad(task, devs[device_id])]
    ELSE devs

\* update_device keeping no record but the new one (a seeded fault).
update_device_alone(devs, dev) == [id \in {dev.id} |-> dev]

\* HashMap::insert: the record with dev.id is inserted or replaced.
update_device(devs, dev) ==
    [id \in DOMAIN devs \cup {dev.id} |-> IF id = dev.id THEN dev ELSE devs[id]]

Perms(S) == { p \in [1..Cardinality(S) -> S] : \A a \in S : \E i \in DOMAIN p : p[i] = a }

\* The iteration orders the map may have after inserting id: an existing key keeps
\* its place; a new key may land anywhere and may move the others (a rehash).
OrdersAfterInsert(order, id) ==
    IF \E i \in DOMAIN order : order[i] = id THEN {order}
    ELSE Perms({order[i] : i \in DOMAIN order} \cup {id})

\* What one placement attempt saw and decided.
Attempt(task, pick, devs) == [task |-> task, picked |-> pick, devs |-> devs]

\* TickAttempt with an unplaced task put back at the head of the queue (a seeded fault).
TickAttemptRetryHead(st, task, pick) ==
    IF pick.some
    THEN [devices |-> register_assignment(st.devices, pick.v, task),
          pending_tasks |-> Tail(st.pending_tasks),
          trace |-> Append(st.trace, Attempt(task, pick, st.devices))]
    ELSE [devices |-> st.devices,
          pending_tasks |-> <<task>> \o Tail(st.pending_tasks),
          trace |-> Append(st.trace, Attempt(task, pick, st.devices))]

\* TickAttempt losing the task no device is picked for (a seeded fault).
TickAttemptDropsUnplaced(st, task, pick) ==
    IF pick.some
    THEN [devices |-> register_assignment(st.devices, pick.v, task),
          pending_tasks |-> Tail(st.pending_tasks),
          trace |-> Append(st.trace, Attempt(task, pick, st.devices))]
    ELSE [devices |-> st.devices,
          pending_tasks |-> Tail(st.pending_tasks),
          trace |-> Append(st.trace, Attempt(task, pick, st.devices))]

\* The first loop of tick: len tasks are popped from the front; a task no device is
\* picked for is pushed back.  trace records each attempt.
TickAttempt(st, task, pick) ==
    IF pick.some
    THEN [devices |-> register_assignment(st.devices, pick.v, task),
          pending_tasks |-> Tail(st.pending_tasks),
          trace |-> Append(st.trace, Attempt(task, pick, st.devices))]
    ELSE [devices |-> st.devices,
          pending_tasks |-> Append(Tail(st.pending_tasks), task),
          trace |-> Append(st.trace, Attempt(task, pick, st.devices))]

TickStep(st, order) ==
    TickAttempt(st, Head(st.pending_tasks),
                pick_device_for_task(st.devices, order, Head(st.pending_tasks)))

RECURSIVE TickLoop(_, _, _)
TickLoop(n, st, order) ==
    IF n = 0 \/ st.pending_tasks = <<>> THEN st
    ELSE TickLoop(n - 1, TickStep(st, order), order)

tick(devs, order, queue) ==
    TickLoop(Len(queue), [devices |-> devs, pending_tasks |-> queue, trace |-> <<>>], order)

(***************************************************************************)
(* Agent::run and the HTTP surface                                         *)
(***************************************************************************)
\* listen.parse::<SocketAddr>() succeeds on an IP literal with a port only.
ParsesAsSocketAddr(listen) == listen.form \in {"v4", "v6"}

\* IpAddr::is_loopback: 127.0.0.0/8 or ::1.
IpIsLoopback(listen) ==
    \/ listen.form = "v4" /\ listen.ip[1] = 127
    \/ listen.form = "v6" /\ listen.ip = <<0, 0, 0, 0, 0, 0, 0, 1>>

listen_is_loopback(listen) == ParsesAsSocketAddr(listen) /\ IpIsLoopback(listen)

\* Whether Agent::run builds the Orchestrator (and spawns run_loop).
orchestrator_state(cfg) == cfg.orchestrator.some /\ cfg.orchestrator.v.enabled

HttpState(cfg) ==
    [orchestrator |-> orchestrator_state(cfg),
     orchestrator_allow_public |-> cfg.orchestrator.some /\ cfg.orchestrator.v.allow_public,
     listen_is_loopback |-> listen_is_loopback(cfg.listen_address),
     orchestrator_token |-> IF cfg.orchestrator.some THEN cfg.orchestrator.v.token ELSE NoneStr]

\* build_router nesting /orchestrator whatever the listener (a seeded fault).
RoutesMountedAnywhere(state) == state.orchestrator

\* build_router: whether /orchestrator is nested into the router.
RoutesMounted(state) ==
    state.orchestrator /\ (state.orchestrator_allow_public \/ state.listen_is_loopback)

\* authorize comparing the scheme without regard to case (a seeded fault).
authorizeAnyCase(headers, token) ==
    IF token.some
    THEN headers.some /\ headers.v \in {"Bearer " \o token.v, "bearer " \o token.v}
    ELSE TRUE

\* authorize: TRUE for Ok(()), FALSE for Err(UNAUTHORIZED).
authorize(headers, token) ==
    IF token.some
    THEN headers.some /\ headers.v = "Bearer " \o token.v
    ELSE TRUE

NoMetrics == [device_count |-> 0, pending_tasks |-> 0, devices |-> <<>>]

Obs(op, auth, status) ==
    [op |-> op, auth |-> auth, status |-> status, task |-> NoTask, device |-> NoDevice,
     assigned |-> NoneStr, trace |-> <<>>, metrics |-> NoMetrics]

\* SubmitWith queueing the task it has just assigned (a seeded fault).
SubmitWithAlsoQueued(devs, queue, task, pick) ==
    IF pick.some
    THEN [devices |-> register_assignment(devs, pick.v, task),
          pending_tasks |-> Append(queue, task), assigned |-> pick, task |-> task]
    ELSE [devices |-> devs, pending_tasks |-> Append(queue, task), assigned |-> NoneStr,
          task |-> task]

\* The body of submit_task_handler after authorize, given the pick.
SubmitWith(devs, queue, task, pick) ==
    IF pick.some
    THEN [devices |-> register_assignment(devs, pick.v, task), pending_tasks |-> queue,
          assigned |-> pick, task |-> task]
    ELSE [devices |-> devs, pending_tasks |-> Append(queue, task), assigned |-> NoneStr,
          task |-> task]

SubmitOutcome(devs, order, queue, task) ==
    SubmitWith(devs, queue, task, pick_device_for_task(devs, order, task))

\* The autonomous feature hooks at the end of tick: the ones in the source are stubs
\* that only log.
Features(devs) == devs

NotFound(op, hdr) ==
    /\ obs' = Obs(op, hdr, 404)
    /\ UNCHANGED <<config, devices, dev_order, pending_tasks, submitted>>

Unauthorized(op, hdr) ==
    /\ obs' = Obs(op, hdr, 401)
    /\ UNCHANGED <<config, devices, dev_order, pending_tasks, submitted>>

heartbeat_handler(hdr, dev) ==
    IF ~authorize(hdr, HttpState(config).orchestrator_token)
    THEN Unauthorized("register", hdr)
    ELSE /\ devices' = update_device(devices, dev)
         /\ dev_order' \in OrdersAfterInsert(dev_order, dev.id)
         /\ obs' = [Obs("register", hdr, 200) EXCEPT !.device = dev]
         /\ UNCHANGED <<config, pending_tasks, submitted>>

SubmitResponse(hdr, out) ==
    /\ devices' = out.devices
    /\ pending_tasks' = out.pending_tasks
    /\ obs' = [Obs("submit", hdr, 200) EXCEPT
                  !.task = out.task, !.assigned = out.assigned,
                  !.trace = <<Attempt(out.task, out.assigned, devices)>>]

submit_task_handler(hdr, shape) ==
    IF ~authorize(hdr, HttpState(config).orchestrator_token)
    THEN Unauthorized("submit", hdr)
    ELSE /\ submitted < MaxSubmits
         /\ SubmitResponse(hdr, SubmitOutcome(devices, dev_order, pending_tasks,
                                              [shape EXCEPT !.id = submitted + 1]))
         /\ submitted' = submitted + 1
         /\ UNCHANGED <<config, dev_order>>

metrics_handler(hdr) ==
    IF ~authorize(hdr, HttpState(config).orchestrator_token)
    THEN Unauthorized("metrics", hdr)
    ELSE /\ obs' = [Obs("metrics", hdr, 200) EXCEPT
                       !.metrics = [device_count |-> Len(dev_order),
                                    pending_tasks |-> Len(pending_tasks),
                                    devices |-> [i \in DOMAIN dev_order |-> devices[dev_order[i]]]]]
         /\ UNCHANGED <<config, devices, dev_order, pending_tasks, submitted>>

\* POST /orchestrator/register
Register(hdr, dev) ==
    /\ IF RoutesMounted(HttpState(config)) THEN heartbeat_handler(hdr, dev)
       ELSE NotFound("register", hdr)
    /\ UNCHANGED <<tsdb_vars, status_vars, collector_vars, loop_vars, event_vars, cli_vars, app_vars, conc_vars>>

\* POST /orchestrator/submit
Submit(hdr, shape) ==
    /\ IF RoutesMounted(HttpState(config)) THEN submit_task_handler(hdr, shape)
       ELSE NotFound("submit", hdr)
    /\ UNCHANGED <<tsdb_vars, status_vars, collector_vars, loop_vars, event_vars, cli_vars, app_vars, conc_vars>>

\* GET /orchestrator/metrics
GetMetrics(hdr) ==
    /\ IF RoutesMounted(HttpState(config)) THEN metrics_handler(hdr)
       ELSE NotFound("metrics", hdr)
    /\ UNCHANGED <<tsdb_vars, status_vars, collector_vars, loop_vars, event_vars, cli_vars, app_vars, conc_vars>>

TickResult(r) ==
    /\ devices' = Features(r.devices)
    /\ pending_tasks' = r.pending_tasks
    /\ obs' = [Obs("tick", NoneStr, 0) EXCEPT !.trace = r.trace]

\* One iteration of run_loop: Orchestrator::tick under the write lock.
Tick ==
    /\ orchestrator_state(config)
    /\ TickResult(tick(devices, dev_order, pending_tasks))
    /\ UNCHANGED <<config, dev_order, submitted>>
    /\ UNCHANGED <<tsdb_vars, status_vars, collector_vars, loop_vars, event_vars, cli_vars, app_vars, conc_vars>>

(***************************************************************************)
(* LocalTsdb                                                               *)
(*                                                                         *)
(* A metric name and a metric filter are sequences of tokens; the token    *)
(* "*" is the character '*'.  A directory name is a sequence of digit runs *)
(* and '-' characters.  A line of samples.jsonl is the JSON object of a    *)
(* sample, in which a value that is not finite is written as null.  A      *)
(* BufWriter also writes through when its 8 KiB buffer fills, which the    *)
(* few short lines of a run never do.                                      *)
(***************************************************************************)
\* BLOCK_DURATION.as_millis()
BLOCK_DURATION == 2 * 60 * 60 * 1000

\* FLUSH_INTERVAL.as_millis()
FLUSH_INTERVAL == 30 * 1000

Sample(metric, labels, ts_ms, value) ==
    [metric |-> metric, labels |-> labels, ts_ms |-> ts_ms, value |-> value]

NoneI64 == [some |-> FALSE, v |-> 0]

NoneFilters == [some |-> FALSE, v |-> <<>>]

GpuPower == <<"gpu_", "power">>

CpuLoad == <<"cpu_", "load">>

\* The label pairs of the model, in the order of their keys.
LabelPairs == << <<"gpu", "0">>, <<"host", "n1">>, <<"index", "0">>, <<"uuid", "U">> >>

\* The samples a batch is made of: two metrics; timestamps in the first window (one of
\* them FLUSH_INTERVAL past its start), at the start of the second, and before the
\* epoch; a value that is not a number.
SampleInputs ==
    { Sample(GpuPower, {<<"gpu", "0">>, <<"host", "n1">>}, 1000, F(15, -1)),
      Sample(CpuLoad, {}, 31000, F(25, -2)),
      Sample(CpuLoad, {}, BLOCK_DURATION, F(25, -2)),
      Sample(GpuPower, {<<"gpu", "0">>}, -1, F(15, -1)),
      Sample(CpuLoad, {}, -BLOCK_DURATION - 1, F(25, -2)),
      Sample(GpuPower, {<<"gpu", "0">>}, 2000, NaN) }

\* The number of samples a run writes, and the longest batch of one write_samples.
MaxSamples == 3

MaxBatch == 2

Batches == UNION { [1..n -> SampleInputs] : n \in 0..MaxBatch }

ExportQuery(from, to, metrics) == [from |-> from, to |-> to, metrics |-> metrics]

NoQuery == ExportQuery(NoneI64, NoneI64, NoneFilters)

ExportQueries ==
    { NoQuery,
      ExportQuery(Some(1000), Some(1000), Some(<<GpuPower>>)),
      ExportQuery(Some(0), NoneI64, Some(<< <<"cpu_", "*">> >>)),
      ExportQuery(NoneI64, Some(BLOCK_DURATION - 1), NoneFilters) }

\* i64 division: the quotient is truncated toward zero.
TruncDiv(a, b) == IF a >= 0 THEN a \div b ELSE -((-a) \div b)

Digits(n) == [dash |-> FALSE, n |-> n]

Dash == [dash |-> TRUE, n |-> 0]

\* Display of an i64.
FormatI64(n) == IF n < 0 THEN <<Dash, Digits(-n)>> ELSE <<Digits(n)>>

\* format!("{start_ms}-{end_ms}")
BlockDirName(start_ms, end_ms) == FormatI64(start_ms) \o <<Dash>> \o FormatI64(end_ms)

RECURSIVE SplitLoop(_, _)
SplitLoop(name, parts) ==
    IF name = <<>> THEN parts
    ELSE SplitLoop(Tail(name),
                   IF Head(name).dash THEN Append(parts, <<>>)
                   ELSE [parts EXCEPT ![Len(parts)] = Append(@, Head(name))])

\* name.split('-')
SplitDash(name) == SplitLoop(name, << <<>> >>)

\* part.parse::<i64>() of a part without '-': Ok for one run of digits.
ParsesAsI64(part) == Len(part) = 1

NoCounts == [key \in {} |-> 0]

\* *counts.entry(key).or_default() += 1
Inc(counts, key) ==
    [k \in DOMAIN counts \cup {key} |->
        IF k = key THEN (IF key \in DOMAIN counts THEN counts[key] ELSE 0) + 1
        ELSE counts[k]]

BlockMeta(start_ms, end_ms) ==
    [start_ms |-> start_ms, end_ms |-> end_ms, samples |-> 0,
     metric_counts |-> NoCounts, label_hash_counts |-> NoCounts]

NoneMeta == [some |-> FALSE, v |-> BlockMeta(0, 0)]

NoneWriter ==
    [some |-> FALSE,
     v |-> [meta |-> BlockMeta(0, 0), dir |-> <<>>, buf |-> <<>>, last_flush_ms |-> 0]]

\* The pairs of a label map sorted by key.
SortedLabels(labels) == SelectSeq(LabelPairs, LAMBDA pair : pair \in labels)

\* labels_hash: the hash of the sorted pairs, taken to be free of collisions.
labels_hash(labels) == SortedLabels(labels)

\* serde_json's f64: a number, or null for NaN and the infinities.
JsonF64(value) == IF IsFinite(value) THEN Some(value) ELSE [some |-> FALSE, v |-> Zero]

\* serde_json::to_string(sample)
ToJson(sample) == [sample EXCEPT !.value = JsonF64(sample.value)]

\* serde_json::from_str::<Sample>(line) succeeds unless the value is null.
ParsesAsSample(line) == line.value.some

FromJson(line) == [line EXCEPT !.value = line.value.v]

\* {:.6} of a finite f64: its sign and the number of millionths, ties to even.
Millionths(m, e) ==
    IF e + 6 >= 0 THEN m * Pow10(e + 6)
    ELSE (m \div Pow10(-(e + 6)))
         + (IF 2 * (m % Pow10(-(e + 6))) > Pow10(-(e + 6))
               \/ (2 * (m % Pow10(-(e + 6))) = Pow10(-(e + 6))
                     /\ (m \div Pow10(-(e + 6))) % 2 = 1)
            THEN 1 ELSE 0)

Fixed6(value) ==
    IF IsNaN(value) THEN [text |-> "NaN", negative |-> FALSE, millionths |-> 0]
    ELSE IF ~IsFinite(value)
         THEN [text |-> "inf", negative |-> value.m < 0, millionths |-> 0]
         ELSE [text |-> "", negative |-> value.m < 0,
               millionths |-> Millionths(Abs(value.m), value.e)]

\* "{metric}{labels} {ts_ms} {value:.6}"
format_export_line(sample) ==
    [metric |-> sample.metric, labels |-> SortedLabels(sample.labels),
     ts_ms |-> sample.ts_ms, value |-> Fixed6(sample.value)]

overlaps(start, end, from, to) ==
    (~from.some \/ end >= from.v) /\ (~to.some \/ start <= to.v)

timestamp_in_range(ts, from, to) ==
    (~from.some \/ ts >= from.v) /\ (~to.some \/ ts <= to.v)

EndsWithStar(f) == f # <<>> /\ f[Len(f)] = "*"

RECURSIVE TrimEndStars(_)
TrimEndStars(f) == IF EndsWithStar(f) THEN TrimEndStars(SubSeq(f, 1, Len(f) - 1)) ELSE f

StartsWith(name, prefix) ==
    Len(prefix) <= Len(name) /\ SubSeq(name, 1, Len(prefix)) = prefix

metrics_match_index(filters, idx) ==
    \E i \in DOMAIN filters :
        IF EndsWithStar(filters[i])
        THEN \E m \in DOMAIN idx.metric_counts : StartsWith(m, TrimEndStars(filters[i]))
        ELSE filters[i] \in DOMAIN idx.metric_counts

matches_metric(metric, filters) ==
    \E i \in DOMAIN filters :
        IF EndsWithStar(filters[i])
        THEN StartsWith(metric, TrimEndStars(filters[i]))
        ELSE metric = filters[i]

\* A block directory: samples.jsonl, meta.json and index.json, the window it was
\* created for, and what samples.jsonl held when meta.json and index.json were last
\* written.  torn: samples.jsonl ends with a piece of a line that has no newline.
NewBlockDir(start_ms, end_ms) ==
    [start_ms |-> start_ms, end_ms |-> end_ms, samples |-> <<>>,
     meta |-> NoneMeta, index |-> NoneMeta, lines_at_index |-> <<>>, torn |-> FALSE]

\* A failure of the filesystem during one call: the operation that fails, counted from 0
\* over the filesystem operations of the call (at = -1: none fails), and what a failing
\* write of samples.jsonl leaves in the file: the first `written` buffered lines and,
\* when torn, a piece of the next one.
Fault(at, written, torn) == [at |-> at, written |-> written, torn |-> torn]

NoFault == Fault(-1, 0, FALSE)

\* The call goes on after a filesystem operation that succeeded.
Passed(st) == [st EXCEPT !.fault.at = IF @ > 0 THEN @ - 1 ELSE @]

\* The call leaves with the error of the filesystem operation op.
Failed(st, op) == [st EXCEPT !.err = TRUE, !.failed = op, !.fault.at = -1]

\* The lines of buf that a write reaches before it fails.
WrittenLines(buf, fault) ==
    SubSeq(buf, 1, IF fault.written < Len(buf) THEN fault.written ELSE Len(buf))

\* create_dir_all and the open of samples.jsonl for appending: an existing directory
\* and file are kept.
OpenBlockDir(fs, dir, start_ms, end_ms) ==
    IF dir \in DOMAIN fs THEN fs
    ELSE [d \in DOMAIN fs \cup {dir} |->
             IF d = dir THEN NewBlockDir(start_ms, end_ms) ELSE fs[d]]

\* BlockWriter::create: create_dir_all, then the open of samples.jsonl.
BlockWriterCreate(st, start_ms, end_ms) ==
    IF st.fault.at = 0 THEN Failed(st, "create_dir_all")
    ELSE IF st.fault.at = 1
    THEN [Failed(st, "open") EXCEPT
             !.disk = OpenBlockDir(@, BlockDirName(start_ms, end_ms), start_ms, end_ms)]
    ELSE [Passed(Passed(st)) EXCEPT
             !.current = Some([meta |-> BlockMeta(start_ms, end_ms),
                               dir |-> BlockDirName(start_ms, end_ms),
                               buf |-> <<>>,
                               last_flush_ms |-> start_ms]),
             !.disk = OpenBlockDir(@, BlockDirName(start_ms, end_ms), start_ms, end_ms)]

\* A flush that writes the buffered lines and keeps them in the buffer.
WriterFlushKeepsBuffer(st) ==
    [st EXCEPT !.disk = IF st.current.v.dir \in DOMAIN st.disk
                        THEN [st.disk EXCEPT ![st.current.v.dir].samples =
                                                 @ \o st.current.v.buf]
                        ELSE st.disk]

\* A write of the buffer that fails: the file has taken the bytes the write reached, the
\* BufWriter has handed over its whole buffer.
FlushFailed(st) ==
    [Failed(st, "flush") EXCEPT
        !.current.v.buf = <<>>,
        !.disk = IF st.current.v.dir \in DOMAIN st.disk
                 THEN [st.disk EXCEPT
                          ![st.current.v.dir].samples =
                              @ \o WrittenLines(st.current.v.buf, st.fault),
                          ![st.current.v.dir].torn =
                              @ \/ (st.fault.torn /\ st.fault.written < Len(st.current.v.buf))]
                 ELSE st.disk]

\* self.writer.flush(): once the directory has been removed the lines go to the
\* unlinked file and are seen by no one.
WriterFlush(st) ==
    IF st.fault.at = 0 THEN FlushFailed(st)
    ELSE [Passed(st) EXCEPT
             !.current.v.buf = <<>>,
             !.disk = IF st.current.v.dir \in DOMAIN st.disk
                      THEN [st.disk EXCEPT ![st.current.v.dir].samples =
                                               @ \o st.current.v.buf]
                      ELSE st.disk]

\* persist_index_files, which is not reached when the flush before it has failed:
\* fs::write of meta.json, then of index.json; both fail when the directory has been
\* removed.
persist_index_files(st) ==
    IF st.err THEN st
    ELSE IF st.current.v.dir \notin DOMAIN st.disk \/ st.fault.at = 0
    THEN Failed(st, "meta")
    ELSE IF st.fault.at = 1
    THEN [Failed(st, "index") EXCEPT !.disk[st.current.v.dir].meta = Some(st.current.v.meta)]
    ELSE [Passed(Passed(st)) EXCEPT
             !.disk[st.current.v.dir].meta = Some(st.current.v.meta),
             !.disk[st.current.v.dir].index = Some(st.current.v.meta),
             !.disk[st.current.v.dir].lines_at_index = st.disk[st.current.v.dir].samples]

\* BlockWriter::finish, which consumes the writer.
\* finish without the flush of the write buffer.
finishNoFlush(st) == [persist_index_files(st) EXCEPT !.current = NoneWriter]

finish(st) == [persist_index_files(WriterFlush(st)) EXCEPT !.current = NoneWriter]

flush_if_needed(st, ts_ms) ==
    IF ts_ms - st.current.v.last_flush_ms >= FLUSH_INTERVAL
    THEN [WriterFlush(st) EXCEPT
             !.current.v.last_flush_ms = IF st.fault.at = 0 THEN @ ELSE ts_ms]
    ELSE st

Buffered(st, sample) ==
    [st EXCEPT !.current.v.buf = Append(@, ToJson(sample)),
               !.current.v.meta.samples = @ + 1,
               !.current.v.meta.metric_counts = Inc(@, sample.metric),
               !.current.v.meta.label_hash_counts = Inc(@, labels_hash(sample.labels))]

write_sample(st, sample) == flush_if_needed(Buffered(st, sample), sample.ts_ms)

WindowStart(ts_ms) == TruncDiv(ts_ms, BLOCK_DURATION) * BLOCK_DURATION

NeedsNew(cur, ts_ms) ==
    ~cur.some \/ ts_ms < cur.v.meta.start_ms \/ ts_ms >= cur.v.meta.end_ms

\* The new block of ensure_block_for_ts, unless finishing the old one failed.
CreateAfter(finished, ts_ms) ==
    IF finished.err THEN finished
    ELSE BlockWriterCreate(finished, WindowStart(ts_ms), WindowStart(ts_ms) + BLOCK_DURATION)

ensure_block_for_ts(st, ts_ms) ==
    IF NeedsNew(st.current, ts_ms)
    THEN CreateAfter(IF st.current.some THEN finish(st) ELSE st, ts_ms)
    ELSE st

\* The body of the loop of write_samples after ensure_block_for_ts: `?` leaves on Err.
WriteEnsured(st, sample) == IF st.err THEN st ELSE write_sample(st, sample)

RECURSIVE WriteLoop(_, _)
WriteLoop(samples, st) ==
    IF samples = <<>> \/ st.err THEN st
    ELSE WriteLoop(Tail(samples),
                   WriteEnsured(ensure_block_for_ts(st, Head(samples).ts_ms), Head(samples)))

write_samples(st, samples) == WriteLoop(samples, st)

flush_current(st) == IF st.current.some THEN finish(st) ELSE st

\* snapshot_current finishing the block as flush_current does (a seeded fault).
snapshot_current_finishes(st) == flush_current(st)

\* snapshot_current ignores the result of persist_index_files, not that of the flush.
snapshot_current(st) ==
    IF st.current.some
    THEN [persist_index_files(WriterFlush(st)) EXCEPT
             !.err = (st.fault.at = 0),
             !.failed = IF st.fault.at = 0 THEN @ ELSE "none"]
    ELSE st

\* list_blocks keeps the directories whose name splits at '-' into two integers.
IsBlockDirName(name) ==
    /\ Len(SplitDash(name)) = 2
    /\ ParsesAsI64(SplitDash(name)[1])
    /\ ParsesAsI64(SplitDash(name)[2])

BlockInfo(fs, name) ==
    [dir |-> name, start_ms |-> SplitDash(name)[1][1].n, end_ms |-> SplitDash(name)[2][1].n,
     index |-> fs[name].index]

list_blocks(fs) == {name \in DOMAIN fs : IsBlockDirName(name)}

\* The body of the loop of export_lines over the lines of one samples.jsonl.
ExportLine(line, q) ==
    IF ~ParsesAsSample(line) THEN <<>>
    ELSE IF ~timestamp_in_range(line.ts_ms, q.from, q.to) THEN <<>>
    ELSE IF q.metrics.some /\ ~matches_metric(line.metric, q.metrics.v) THEN <<>>
    ELSE <<format_export_line(FromJson(line))>>

RECURSIVE ExportContent(_, _, _)
ExportContent(content, q, out) ==
    IF content = <<>> THEN out
    ELSE ExportContent(Tail(content), q, out \o ExportLine(Head(content), q))

ExportBlock(blk, content, q, out) ==
    IF ~overlaps(blk.start_ms, blk.end_ms, q.from, q.to) THEN out
    ELSE IF q.metrics.some /\ blk.index.some /\ ~metrics_match_index(q.metrics.v, blk.index.v)
         THEN out
         ELSE ExportContent(content, q, out)

RECURSIVE ExportBlocks(_, _, _, _)
ExportBlocks(fs, order, q, out) ==
    IF order = <<>> THEN out
    ELSE ExportBlocks(fs, Tail(order), q,
                      ExportBlock(BlockInfo(fs, Head(order)), fs[Head(order)].samples, q, out))

\* export_lines: order is the order in which read_dir yields the block directories.
export_lines(st, order, q) ==
    [st |-> snapshot_current(st),
     lines |-> ExportBlocks(snapshot_current(st).disk, order, q, <<>>)]

\* Bytes of a line of samples.jsonl and of meta.json or index.json (estimates of the
\* serialised lengths).
LineBytes(line) == 64 + 16 * Cardinality(line.labels)

MetaBytes(meta) ==
    IF meta.some
    THEN 128 + 32 * (Cardinality(DOMAIN meta.v.metric_counts)
                       + Cardinality(DOMAIN meta.v.label_hash_counts))
    ELSE 0

RECURSIVE FileBytes(_)
FileBytes(lines) == IF lines = <<>> THEN 0 ELSE LineBytes(Head(lines)) + FileBytes(Tail(lines))

dir_size_bytes(blk) == FileBytes(blk.samples) + MetaBytes(blk.meta) + MetaBytes(blk.index)

\* fs::remove_dir_all
RemoveDirs(fs, dirs) == [d \in DOMAIN fs \ dirs |-> fs[d]]

LocalTsdbConfig(retention_hours, max_disk_mb) ==
    [retention_hours |-> retention_hours, max_disk_mb |-> max_disk_mb]

\* The default retention of 48 hours, with a disk budget of 1 MB or none.
TsdbConfigs == { LocalTsdbConfig(48, 1), LocalTsdbConfig(48, 0) }

\* The clock readings of the pruner.
NowInputs == {1000, 200000000}

Expired(fs, now_ms, retention_ms) ==
    {d \in list_blocks(fs) : BlockInfo(fs, d).end_ms < now_ms - retention_ms}

RECURSIVE TotalBytes(_, _)
TotalBytes(fs, dirs) ==
    IF dirs = {} THEN 0
    ELSE dir_size_bytes(fs[CHOOSE d \in dirs : TRUE])
           + TotalBytes(fs, dirs \ {CHOOSE d \in dirs : TRUE})

\* The block of dirs with the largest start_ms.
Oldest_newest_first(fs, dirs) ==
    CHOOSE d \in dirs : \A e \in dirs : BlockInfo(fs, d).start_ms >= BlockInfo(fs, e).start_ms

\* The block of dirs with the smallest start_ms.
Oldest(fs, dirs) ==
    CHOOSE d \in dirs : \A e \in dirs : BlockInfo(fs, d).start_ms <= BlockInfo(fs, e).start_ms

\* The second loop of prune over the blocks sorted by start_ms: the directories
\* removed to enforce the disk budget. failing are the directories of which
\* remove_dir_all returns an error: they stay, and total_bytes keeps their size.
RECURSIVE BudgetLoop(_, _, _, _, _, _)
BudgetLoop(fs, left, total_bytes, max_bytes, removed, failing) ==
    IF left = {} \/ total_bytes <= max_bytes THEN removed
    ELSE IF Oldest(fs, left) \in failing
         THEN BudgetLoop(fs, left \ {Oldest(fs, left)}, total_bytes, max_bytes, removed,
                         failing)
         ELSE BudgetLoop(fs, left \ {Oldest(fs, left)},
                         total_bytes - dir_size_bytes(fs[Oldest(fs, left)]),
                         max_bytes, removed \cup {Oldest(fs, left)}, failing)

OverBudget(fs, max_bytes, failing) ==
    IF TotalBytes(fs, list_blocks(fs)) > max_bytes
    THEN BudgetLoop(fs, list_blocks(fs), TotalBytes(fs, list_blocks(fs)), max_bytes, {},
                    failing)
    ELSE {}

\* The first loop of prune: the expired directories whose removal succeeds.
RetentionRemoves(fs, cfg, now_ms, failing) ==
    Expired(fs, now_ms, cfg.retention_hours * 60 * 60 * 1000) \ failing

\* The directories one run of prune removes: the expired ones, then the oldest of the
\* rest while the total exceeds the budget.
PruneRemoves(fs, cfg, now_ms, failing) ==
    RetentionRemoves(fs, cfg, now_ms, failing)
      \cup OverBudget(RemoveDirs(fs, RetentionRemoves(fs, cfg, now_ms, failing)),
                      cfg.max_disk_mb * 1024 * 1024, failing)

prune(fs, cfg, now_ms, failing) == RemoveDirs(fs, PruneRemoves(fs, cfg, now_ms, failing))

Store == [current |-> current, disk |-> disk, err |-> FALSE, failed |-> "none",
          fault |-> NoFault]

Stored(st) ==
    /\ current' = st.current
    /\ disk' = st.disk

TsdbObs(op, q, lines) ==
    [op |-> op, query |-> q, lines |-> lines, ok |-> TRUE, failed |-> "none", faults |-> 0]

\* The answer of a call that returns a Result<()>.
Returned(op, r) ==
    tsdb_obs' = [TsdbObs(op, NoQuery, <<>>) EXCEPT !.ok = ~r.err, !.failed = r.failed,
                                                   !.faults = tsdb_obs.faults]

Written(samples, r) ==
    /\ Stored(r)
    /\ accepted' = IF r.err THEN accepted ELSE accepted \o samples
    /\ Returned("write_samples", r)

Flushed(r) ==
    /\ Stored(r)
    /\ Returned("flush_current", r)

\* LocalTsdb::write_samples, which the collection task calls with the samples of one
\* scrape.
WriteSamples(samples) ==
    /\ Len(accepted) + Len(samples) <= MaxSamples
    /\ Written(samples, write_samples(Store, samples))
    /\ UNCHANGED <<agent_vars, status_vars, collector_vars, loop_vars, event_vars, cli_vars, app_vars, conc_vars, tsdb_config, pruned>>

\* The filesystem failures of one call: any of its first operations, with a write that
\* fails before its first line, in the middle of it, or after it.
MaxFaultAt == 7

Faults == { Fault(at, written, torn) : at \in 0..MaxFaultAt, written \in 0..1, torn \in BOOLEAN }

\* The batches written to the failing filesystem: samples of two block windows.
FaultBatches ==
    UNION { [1..n -> { Sample(CpuLoad, {}, 31000, F(25, -2)),
                       Sample(CpuLoad, {}, BLOCK_DURATION, F(25, -2)) }] : n \in 0..MaxBatch }

MaxFaults == 1

\* The answer of a call made on the failing filesystem; faults counts these calls.
WrittenFailing(samples, r) ==
    /\ Stored(r)
    /\ accepted' = IF r.err THEN accepted ELSE accepted \o samples
    /\ tsdb_obs' = [TsdbObs("write_samples", NoQuery, <<>>) EXCEPT
                       !.ok = ~r.err, !.failed = r.failed, !.faults = tsdb_obs.faults + 1]

\* write_samples on a filesystem of which one operation fails.
WriteSamplesFailing(samples, fault) ==
    /\ Len(accepted) + Len(samples) <= MaxSamples
    /\ tsdb_obs.faults < MaxFaults
    /\ WrittenFailing(samples, write_samples([Store EXCEPT !.fault = fault], samples))
    /\ UNCHANGED <<agent_vars, status_vars, collector_vars, loop_vars, event_vars, cli_vars, app_vars, conc_vars, tsdb_config,
                   pruned>>

SnapshotCurrent ==
    /\ Stored(snapshot_current(Store))
    /\ tsdb_obs' = TsdbObs("snapshot_current", NoQuery, <<>>)
    /\ UNCHANGED <<agent_vars, status_vars, collector_vars, loop_vars, event_vars, cli_vars, app_vars, conc_vars, accepted, tsdb_config, pruned>>

\* LocalTsdb::flush_current, called at shutdown.
FlushCurrent ==
    /\ Flushed(flush_current(Store))
    /\ UNCHANGED <<agent_vars, status_vars, collector_vars, loop_vars, event_vars, cli_vars, app_vars, conc_vars, accepted, tsdb_config, pruned>>

Exported(q, r) ==
    /\ Stored(r.st)
    /\ tsdb_obs' = TsdbObs("export_lines", q, r.lines)

\* GET /tsdb/export; read_dir may yield the block directories in any order.
ExportLines(q) ==
    /\ \E order \in Perms(list_blocks(disk)) : Exported(q, export_lines(Store, order, q))
    /\ UNCHANGED <<agent_vars, status_vars, collector_vars, loop_vars, event_vars, cli_vars, app_vars, conc_vars, accepted, tsdb_config, pruned>>

\* One run of the pruner task, which takes no lock.
Prune(now_ms) ==
    /\ disk' = prune(disk, tsdb_config, now_ms, {})
    /\ pruned' = pruned \cup PruneRemoves(disk, tsdb_config, now_ms, {})
    /\ tsdb_obs' = TsdbObs("prune", NoQuery, <<>>)
    /\ UNCHANGED <<agent_vars, status_vars, collector_vars, loop_vars, event_vars, cli_vars, app_vars, conc_vars, current, accepted, tsdb_config>>

\* One run of the pruner task in which remove_dir_all fails for the directories failing.
PruneFailing(now_ms, failing) ==
    /\ disk' = prune(disk, tsdb_config, now_ms, failing)
    /\ pruned' = pruned \cup PruneRemoves(disk, tsdb_config, now_ms, failing)
    /\ tsdb_obs' = TsdbObs("prune", NoQuery, <<>>)
    /\ UNCHANGED <<agent_vars, status_vars, collector_vars, loop_vars, event_vars, cli_vars, app_vars, conc_vars, current, accepted, tsdb_config>>

NoDisk == [d \in {} |-> NewBlockDir(0, 0)]

\* LocalTsdb::new on an empty directory.
TsdbInit ==
    /\ current = NoneWriter
    /\ disk = NoDisk
    /\ accepted = <<>>
    /\ tsdb_obs = TsdbObs("none", NoQuery, <<>>)
    /\ tsdb_config = LocalTsdbConfig(48, 1)
    /\ pruned = {}

(***************************************************************************)
(* The status store (agent-core/src/state.rs).  Of the StatusState the     *)
(* model keeps node_power_microwatts, the three degradation flags and the  *)
(* five sections behind a lock; of the host summary it keeps the memory    *)
(* group and app_tokens_per_sec.  Every reading is finite and below 2^31   *)
(* microwatts, so the cast to u64 never saturates upward.                  *)
(***************************************************************************)
NoneU64 == [some |-> FALSE, v |-> 0]

NoneF64 == [some |-> FALSE, v |-> Zero]

\* HostMetrics::default()
HostMetrics ==
    [mem_total_bytes |-> NoneU64, mem_used_bytes |-> NoneU64, mem_free_bytes |-> NoneU64,
     swap_used_bytes |-> NoneU64, app_tokens_per_sec |-> NoneF64]

\* StatusState::new
StatusState ==
    [node_power_microwatts |-> 0, cpu_package_power_watts |-> <<>>,
     cpu_temperatures |-> <<>>, gpu_status |-> <<>>, last_errors |-> <<>>,
     host |-> HostMetrics,
     disk_degraded |-> FALSE, network_degraded |-> FALSE, swap_degraded |-> FALSE,
     last_scrape_unix_ms |-> 0]

\* StatusSnapshot::default(), with the clone of the host summary that snapshot() copies
\* its host fields from.
StatusSnapshot ==
    [host |-> HostMetrics, last_errors |-> <<>>, node_power_watts |-> NoneF64,
     cpu_package_power_watts |-> <<>>, cpu_temperatures |-> <<>>, gpus |-> <<>>,
     app_tokens_per_watt |-> NoneF64,
     disk_degraded |-> FALSE, network_degraded |-> FALSE, swap_degraded |-> FALSE,
     degradation_score |-> 0]

PackagePower(package, watts) == [package |-> package, watts |-> watts]

TemperatureReading(sensor, celsius) == [sensor |-> sensor, celsius |-> celsius]

GpuStatus(gpu, power_watts) == [gpu |-> gpu, power_watts |-> power_watts]

CollectorError(collector, message, unix_ms) ==
    [collector |-> collector, message |-> message, unix_ms |-> unix_ms]

\* Node power readings in watts: 250, 500 and one below a microwatt.
PowerInputs == {F(25, 1), F(5, 2), F(4, -7)}

TokenRates == {F(1, 3)}

MemoryInputs ==
    { [total |-> 16, used |-> 4, free |-> 12, swap |-> 0],
      [total |-> 32, used |-> 8, free |-> 24, swap |-> 1] }

PackageInputs == {PackagePower("0", F(5, 1)), PackagePower("1", F(6, 1)), PackagePower("0", F(7, 1))}

TemperatureInputs ==
    { <<TemperatureReading("core0", F(5, 1))>>,
      <<TemperatureReading("core0", F(6, 1)), TemperatureReading("core1", F(61, 0))>> }

GpuStatusInputs ==
    { <<GpuStatus("0", Some(F(3, 2)))>>,
      <<GpuStatus("0", Some(F(35, 1))), GpuStatus("1", NoneF64)>> }

ErrorCollectors == {"gpu"}

\* The number of setter calls of a run, and of record_error calls of a run that makes
\* no other setter call.
MaxSets == 2
MaxErrors == 11

\* `as u64` of a finite or NaN f64: truncation toward zero, 0 below zero and for NaN.
AsU64(a) ==
    IF a.k = "nan" \/ a.m <= 0 THEN 0
    ELSE IF a.e >= 0 THEN a.m * Pow10(a.e)
    ELSE a.m \div Pow10(-a.e)

\* microwatts as f64 / 1_000_000.0
Watts(microwatts) == FDiv(Norm(microwatts, 0), F(1, 6))

\* A memory summary of which only the first two fields are stored.
set_memory_summary_torn(s, m) ==
    [s EXCEPT !.host.mem_total_bytes = Some(m.total),
              !.host.mem_used_bytes = Some(m.used)]

set_memory_summary(s, m) ==
    [s EXCEPT !.host.mem_total_bytes = Some(m.total),
              !.host.mem_used_bytes = Some(m.used),
              !.host.mem_free_bytes = Some(m.free),
              !.host.swap_used_bytes = Some(m.swap)]

\* A ring that drops its oldest error when it already holds 10.
record_error_at_ten(s, e) ==
    [s EXCEPT !.last_errors = IF Len(@) >= 10 THEN Tail(@) ELSE Append(@, e)]

record_error(s, e) ==
    [s EXCEPT !.last_errors = IF Len(Append(@, e)) > 10 THEN Tail(Append(@, e))
                              ELSE Append(@, e)]

\* The list after set_cpu_package_power: the first entry of the package is updated,
\* or a new entry is pushed.
set_cpu_package_power(list, p) ==
    IF \E i \in DOMAIN list : list[i].package = p.package
    THEN [i \in DOMAIN list |->
             IF i = CHOOSE j \in DOMAIN list :
                        /\ list[j].package = p.package
                        /\ \A k \in 1..(j - 1) : list[k].package # p.package
             THEN p ELSE list[i]]
    ELSE Append(list, p)

\* The loads and lock-protected clones of snapshot(), in the order in which the struct
\* expression evaluates them; read n of a call fills v from the store s.
SnapshotRead(n, v, s) ==
    CASE n = 0 -> [v EXCEPT !.host = s.host]
      [] n = 1 -> [v EXCEPT !.last_errors = s.last_errors]
      [] n = 2 -> [v EXCEPT !.node_power_watts =
                                IF s.node_power_microwatts = 0 THEN NoneF64
                                ELSE Some(Watts(s.node_power_microwatts))]
      [] n = 3 -> [v EXCEPT !.cpu_package_power_watts = s.cpu_package_power_watts]
      [] n = 4 -> [v EXCEPT !.cpu_temperatures = s.cpu_temperatures]
      [] n = 5 -> [v EXCEPT !.gpus = s.gpu_status]
      [] n = 6 -> [v EXCEPT !.app_tokens_per_watt =
                                IF v.host.app_tokens_per_sec.some /\ s.node_power_microwatts > 0
                                THEN Some(FDiv(v.host.app_tokens_per_sec.v,
                                               Watts(s.node_power_microwatts)))
                                ELSE NoneF64]
      [] n = 7 -> [v EXCEPT !.disk_degraded = s.disk_degraded]
      [] n = 8 -> [v EXCEPT !.network_degraded = s.network_degraded]
      [] n = 9 -> [v EXCEPT !.swap_degraded = s.swap_degraded]
      [] n = 10 -> [v EXCEPT !.degradation_score = @ + (IF s.disk_degraded THEN 1 ELSE 0)]
      [] n = 11 -> [v EXCEPT !.degradation_score = @ + (IF s.network_degraded THEN 1 ELSE 0)]
      [] n = 12 -> [v EXCEPT !.degradation_score = @ + (IF s.swap_degraded THEN 1 ELSE 0)]

\* A call of snapshot() that has made n of its 13 reads; from and to are the numbers of
\* setter calls made before its first and before its latest read.
Snapshotting(n, v, from, to) == [n |-> n, v |-> v, from |-> from, to |-> to]

\* One read of snapshot(): a thread that has returned from a call begins the next.
Snapshot ==
    /\ snap' = IF snap.n = 13
               THEN Snapshotting(1, SnapshotRead(0, StatusSnapshot, status_state), calls, calls)
               ELSE Snapshotting(snap.n + 1, SnapshotRead(snap.n, snap.v, status_state),
                                 IF snap.n = 0 THEN calls ELSE snap.from, calls)
    /\ UNCHANGED <<agent_vars, tsdb_vars, collector_vars, loop_vars, event_vars, cli_vars, app_vars, conc_vars, status_state, calls, recorded>>

\* A setter call that leaves the store as s.
Set(s) ==
    /\ status_state' = s
    /\ calls' = calls + 1
    /\ UNCHANGED <<agent_vars, tsdb_vars, collector_vars, loop_vars, event_vars, cli_vars, app_vars, conc_vars, snap, recorded>>

SetAppMetrics(tokens_per_sec) ==
    /\ calls < MaxSets
    /\ Set([status_state EXCEPT !.host.app_tokens_per_sec = Some(tokens_per_sec)])

SetNodePower(watts) ==
    /\ calls < MaxSets
    /\ Set([status_state EXCEPT !.node_power_microwatts = AsU64(FMul(watts, F(1, 6)))])

SetCpuPackagePower(p) ==
    /\ calls < MaxSets
    /\ Set([status_state EXCEPT !.cpu_package_power_watts = set_cpu_package_power(@, p)])

SetCpuTemperatures(readings) ==
    /\ calls < MaxSets
    /\ Set([status_state EXCEPT !.cpu_temperatures = readings])

SetGpuStatuses(statuses) ==
    /\ calls < MaxSets
    /\ Set([status_state EXCEPT !.gpu_status = statuses])

SetMemorySummary(m) ==
    /\ calls < MaxSets
    /\ Set(set_memory_summary(status_state, m))

SetDiskDegraded(degraded) ==
    /\ calls < MaxSets
    /\ Set([status_state EXCEPT !.disk_degraded = degraded])

SetNetworkDegraded(degraded) ==
    /\ calls < MaxSets
    /\ Set([status_state EXCEPT !.network_degraded = degraded])

SetSwapDegraded(degraded) ==
    /\ calls < MaxSets
    /\ Set([status_state EXCEPT !.swap_degraded = degraded])

\* record_error of the collection task; unix_ms is the clock of the call.
RecordError(collector) ==
    /\ calls < MaxSets \/ (calls = Len(recorded) /\ calls < MaxErrors)
    /\ status_state' = record_error(status_state, CollectorError(collector, "failed", calls))
    /\ recorded' = Append(recorded, CollectorError(collector, "failed", calls))
    /\ calls' = calls + 1
    /\ UNCHANGED <<agent_vars, tsdb_vars, collector_vars, loop_vars, event_vars, cli_vars, app_vars, conc_vars, snap>>

StatusInit ==
    /\ status_state = StatusState
    /\ snap = Snapshotting(0, StatusSnapshot, 0, 0)
    /\ calls = 0
    /\ recorded = <<>>

(***************************************************************************)
(* The counters of the collectors (agent-core/src/collectors/cpu.rs,       *)
(* network.rs, gpu.rs): of /proc/stat the user time and the interrupts, of *)
(* one interface the received and transmitted bytes and the receive        *)
(* errors, of one GPU the volatile ECC errors.  Raw readings and their     *)
(* sums stay far below 2^64, so no u64 addition wraps.                     *)
(***************************************************************************)
CpuStat(user, interrupts) == [user |-> user, interrupts |-> interrupts]

NoneStat == [some |-> FALSE, v |-> CpuStat(0, 0)]

NetworkSnapshot(rx, tx, rx_errors, rx_dropped, tx_dropped) ==
    [rx |-> rx, tx |-> tx, rx_errors |-> rx_errors,
     rx_dropped |-> rx_dropped, tx_dropped |-> tx_dropped]

\* The totals sysinfo reports for an interface.
NetworkData(rx, tx, rx_errors) == [rx |-> rx, tx |-> tx, rx_errors |-> rx_errors]

\* The drop counters of an interface in /proc/net/dev.
NetDevVals(rx_dropped, tx_dropped) == [rx_dropped |-> rx_dropped, tx_dropped |-> tx_dropped]

\* What read_proc_stat returns: a reading that grows, one that falls, one that has
\* wrapped to 0, or none.
CpuReadings == {Some(CpuStat(0, 0)), Some(CpuStat(3, 7)), Some(CpuStat(7, 3)), NoneStat}

\* The totals of the interface, or none when the interface is not listed.
NetworkReadings ==
    { Some(NetworkData(0, 0, 0)), Some(NetworkData(3, 7, 0)),
      Some(NetworkData(7, 3, 1)),
      [some |-> FALSE, v |-> NetworkData(0, 0, 0)] }

\* What read_netdev returns for the interface, or none when /proc/net/dev is unreadable.
NetDevReadings ==
    { Some(NetDevVals(0, 0)), Some(NetDevVals(2, 0)),
      [some |-> FALSE, v |-> NetDevVals(0, 0)] }

\* What read_tcp_retrans returns.
RetransReadings == {NoneU64, Some(0), Some(4)}

\* The corrected and uncorrected totals of total_ecc_errors, or none when a call fails.
EccReadings ==
    { Some([corrected |-> 0, uncorrected |-> 0]), Some([corrected |-> 3, uncorrected |-> 1]),
      Some([corrected |-> 1, uncorrected |-> 0]),
      [some |-> FALSE, v |-> [corrected |-> 0, uncorrected |-> 0]] }

MaxCollects == 4

\* A subtraction that goes below zero.
signed_sub(a, b) == a - b

\* u64::saturating_sub
saturating_sub(a, b) == IF a >= b THEN a - b ELSE 0

\* map.get(key).unwrap_or(0)
GetOrZero(map, key) == IF key \in DOMAIN map THEN map[key] ELSE 0

\* map.insert(key, value)
Insert(map, key, value) == [k \in DOMAIN map \cup {key} |-> IF k = key THEN value ELSE map[k]]

\* previous.entry(iface).or_default()
EntryOrDefault(map, key) ==
    IF key \in DOMAIN map THEN map[key] ELSE NetworkSnapshot(0, 0, 0, 0, 0)

\* sysconf(_SC_CLK_TCK)
ticks_per_sec == F(1, 2)

\* The increments of CpuCollector::collect from prev to stat.
CpuInc(m, prev, stat) ==
    [m EXCEPT !.cpu_time_seconds_total =
                  FAdd(@, FDiv(Norm(saturating_sub(stat.user, prev.user), 0), ticks_per_sec)),
              !.cpu_interrupts_total = @ + saturating_sub(stat.interrupts, prev.interrupts)]

\* CpuCollector::collect: the counters move from the second reading on.
CollectCpu(stat) ==
    /\ collected < MaxCollects
    /\ collected' = collected + 1
    /\ registry' = IF stat.some /\ collectors.cpu_prev.some
                  THEN CpuInc(registry, collectors.cpu_prev.v, stat.v)
                  ELSE registry
    /\ collectors' = IF stat.some THEN [collectors EXCEPT !.cpu_prev = stat] ELSE collectors
    /\ UNCHANGED <<agent_vars, tsdb_vars, status_vars, loop_vars, event_vars, cli_vars, app_vars, conc_vars>>

\* The increments of the first loop of NetworkCollector::collect for one interface.
NetworkInc(m, prev, data) ==
    [m EXCEPT !.network_rx_bytes_total = @ + saturating_sub(data.rx, prev.rx),
              !.network_tx_bytes_total = @ + saturating_sub(data.tx, prev.tx),
              !.network_rx_errors_total = @ + saturating_sub(data.rx_errors, prev.rx_errors)]

\* The first loop of NetworkCollector::collect keeps the totals of the interface.
FirstLoop(c, data) ==
    IF data.some
    THEN [c EXCEPT !.previous =
             Insert(@, "eth0", [EntryOrDefault(@, "eth0") EXCEPT !.rx = data.v.rx,
                                                                !.tx = data.v.tx,
                                                                !.rx_errors = data.v.rx_errors])]
    ELSE c

\* The increments of the loop over /proc/net/dev for one interface.
DropInc(m, prev, v) ==
    [m EXCEPT !.network_rx_dropped_total = @ + saturating_sub(v.rx_dropped, prev.rx_dropped),
              !.network_tx_dropped_total = @ + saturating_sub(v.tx_dropped, prev.tx_dropped)]

\* The loop over /proc/net/dev keeps the drop counters of the interface.
SecondLoop(c, netdev) ==
    IF netdev.some
    THEN [c EXCEPT !.previous =
             Insert(@, "eth0", [EntryOrDefault(@, "eth0") EXCEPT
                                   !.rx_dropped = netdev.v.rx_dropped,
                                   !.tx_dropped = netdev.v.tx_dropped])]
    ELSE c

\* previous.iter().any(|(_, snap)| snap.rx_dropped > 0 || snap.tx_dropped > 0)
any_drops(previous) ==
    \E k \in DOMAIN previous : previous[k].rx_dropped > 0 \/ previous[k].tx_dropped > 0

\* The delta of TCPSegRetrans, from the second reading on.
RetransDelta(prev, retrans_total) ==
    IF retrans_total.some /\ prev.some THEN saturating_sub(retrans_total.v, prev.v) ELSE 0

\* NetworkCollector::collect for the interface eth0: the loop over the interfaces of
\* sysinfo, the loop over /proc/net/dev, the degradation flag, the TCP retransmissions.
CollectNetwork(data, netdev, retrans_total) ==
    /\ collected < MaxCollects
    /\ collected' = collected + 1
    /\ registry' =
           [(IF netdev.some
             THEN DropInc(IF data.some
                          THEN NetworkInc(registry, EntryOrDefault(collectors.previous, "eth0"),
                                          data.v)
                          ELSE registry,
                          EntryOrDefault(collectors.previous, "eth0"), netdev.v)
             ELSE IF data.some
                  THEN NetworkInc(registry, EntryOrDefault(collectors.previous, "eth0"), data.v)
                  ELSE registry)
            EXCEPT !.network_tcp_retrans_total =
                       @ + RetransDelta(collectors.prev_tcp_retrans, retrans_total)]
    /\ collectors' =
           [SecondLoop(FirstLoop(collectors, data), netdev) EXCEPT
               !.prev_tcp_retrans = IF retrans_total.some THEN retrans_total ELSE @]
    /\ status_state' =
           [status_state EXCEPT !.network_degraded =
               \/ any_drops(SecondLoop(FirstLoop(collectors, data), netdev).previous)
               \/ RetransDelta(collectors.prev_tcp_retrans, retrans_total) > 0]
    /\ UNCHANGED <<agent_vars, tsdb_vars, snap, calls, recorded, loop_vars, event_vars, cli_vars, app_vars, conc_vars>>

\* The increment of the ECC block of GpuCollector::collect: a total below the previous
\* one moves nothing; a failed call adds 0.
EccInc(m, prev, total) ==
    IF total >= prev THEN [m EXCEPT !.gpu_ecc_errors_total = @ + (total - prev)] ELSE m

CollectGpuEcc(ecc) ==
    /\ collected < MaxCollects
    /\ collected' = collected + 1
    /\ registry' = IF ecc.some
                  THEN EccInc(registry, GetOrZero(collectors.ecc_prev, "0:volatile"),
                              ecc.v.corrected + ecc.v.uncorrected)
                  ELSE registry
    /\ collectors' = IF ecc.some
                     THEN [collectors EXCEPT !.ecc_prev =
                               Insert(@, "0:volatile", ecc.v.corrected + ecc.v.uncorrected)]
                     ELSE collectors
    /\ UNCHANGED <<agent_vars, tsdb_vars, status_vars, loop_vars, event_vars, cli_vars, app_vars, conc_vars>>

\* What read_energy returns for energy_uj, or none when the file cannot be read.
EnergyReadings == {Some(5), Some(10), Some(3000000), NoneU64}

\* What read_max_range returns for max_energy_range_uj.
RangeReadings == {NoneU64, Some(256), Some(2)}

\* now.duration_since(prev_ts), in whole seconds.
Durations == {0, 1, 2}

\* A delta that ignores the declared range.
energy_delta_no_range(current_uj, previous_uj, max_range_uj) ==
    IF current_uj >= previous_uj THEN current_uj - previous_uj ELSE 0

\* The delta of calculate_power_watts: range.checked_sub(previous_uj - current_uj) is
\* none when the range is below the backward movement.
energy_delta(current_uj, previous_uj, max_range_uj) ==
    IF current_uj >= previous_uj THEN current_uj - previous_uj
    ELSE IF max_range_uj.some /\ max_range_uj.v >= previous_uj - current_uj
         THEN max_range_uj.v - (previous_uj - current_uj)
         ELSE 0

\* delta as f64 / 1_000_000.0 / dt.as_secs_f64()
PowerOf(delta, dt) == FDiv(FDiv(Norm(delta, 0), F(1, 6)), Norm(dt, 0))

calculate_power_watts(current_uj, previous_uj, dt, max_range_uj) ==
    IF dt = 0 THEN NoneF64
    ELSE Some(PowerOf(energy_delta(current_uj, previous_uj, max_range_uj), dt))

\* What collect_rapl writes for a zone whose power is watts.
RaplInc(m, watts, dt) ==
    [m EXCEPT !.cpu_package_power_watts = watts,
              !.cpu_package_energy_joules_total = @ + AsU64(FMul(watts, Norm(dt, 0)))]

\* collect_rapl emits for a zone that has a previous reading and a power.
RaplEmits(energy, dt) == energy.some /\ collectors.last_energy_uj.some /\ dt # 0

\* collect_rapl for the zone package-0.
CollectRapl(energy, max_range, dt) ==
    /\ collected < MaxCollects
    /\ collected' = collected + 1
    /\ registry' =
           IF RaplEmits(energy, dt)
           THEN RaplInc(registry,
                        calculate_power_watts(energy.v, collectors.last_energy_uj.v, dt,
                                              max_range).v, dt)
           ELSE registry
    /\ status_state' =
           IF RaplEmits(energy, dt)
           THEN [status_state EXCEPT !.cpu_package_power_watts =
                    set_cpu_package_power(@,
                        PackagePower("package-0",
                            calculate_power_watts(energy.v, collectors.last_energy_uj.v, dt,
                                                  max_range).v))]
           ELSE status_state
    /\ collectors' = IF energy.some THEN [collectors EXCEPT !.last_energy_uj = energy]
                     ELSE collectors
    /\ UNCHANGED <<agent_vars, tsdb_vars, snap, calls, recorded, loop_vars, event_vars, cli_vars, app_vars, conc_vars>>

CollectorInit ==
    /\ collectors = [cpu_prev |-> NoneStat,
                     previous |-> [k \in {} |-> NetworkSnapshot(0, 0, 0, 0, 0)],
                     prev_tcp_retrans |-> NoneU64,
                     ecc_prev |-> [k \in {} |-> 0],
                     last_energy_uj |-> NoneU64]
    /\ registry = [cpu_time_seconds_total |-> Zero, cpu_interrupts_total |-> 0,
                  network_rx_bytes_total |-> 0, network_tx_bytes_total |-> 0,
                  network_rx_errors_total |-> 0, gpu_ecc_errors_total |-> 0,
                  cpu_package_power_watts |-> Zero, cpu_package_energy_joules_total |-> 0,
                  gpu_events_total |-> 0,
                  network_rx_dropped_total |-> 0, network_tx_dropped_total |-> 0,
                  network_tcp_retrans_total |-> 0]
    /\ collected = 0

(***************************************************************************)
(* The collection task and the shutdown of Agent::run (agent-core/src/     *)
(* lib.rs).  The clock is in milliseconds.  A collector is called through  *)
(* the Collector trait: its collect returns Ok or Err after some time; the *)
(* counters it moves are those of the section above.                       *)
(***************************************************************************)
\* The collectors pushed by Agent::new, in the order of their registration.
Registered == <<"cpu", "network">>

\* config.scrape_interval
ScrapeIntervals == {15000, 30000}

\* What a collect call returns and the time it takes: a fast success, a fast failure, a
\* success that lasts longer than three intervals.
CollectOutcomes == { [ok |-> TRUE, elapsed |-> 0], [ok |-> FALSE, elapsed |-> 0],
                     [ok |-> TRUE, elapsed |-> 45000] }

MaxTicks == 3

\* chrono::Utc::now() when the collection task starts.
StartTimes == {7170000}

MaxClock == 7260000

\* The samples of one scrape (samples_from_registry).
ScrapeSamples(ts_ms) == << Sample(CpuLoad, {}, ts_ms, F(25, -2)) >>

\* The deadline of the tick after the one that was due at deadline: the Interval is
\* built by tokio::time::interval and keeps its default MissedTickBehavior::Burst, so
\* the time at which tick() returned does not count.
BurstNextTimeout(deadline, now, period) == deadline + period

\* ticker.tick().await returns: at the deadline, or at once when the deadline has passed.
TickerTick ==
    /\ run.phase # "exited"
    /\ tick_loop.pc = "tick"
    /\ tick_loop.ticks < MaxTicks
    /\ ticker.deadline <= MaxClock
    /\ clock' = IF clock >= ticker.deadline THEN clock ELSE ticker.deadline
    /\ ticker' = [ticker EXCEPT !.deadline = BurstNextTimeout(@, clock', ticker.period)]
    /\ tick_loop' = [tick_loop EXCEPT !.pc = "collect", !.i = 1, !.all_ok = TRUE,
                                      !.ts_ms = clock', !.results = <<>>]
    /\ UNCHANGED <<agent_vars, event_vars, cli_vars, app_vars, conc_vars, tsdb_vars, status_vars, collector_vars, healthy,
                   agent_metrics, health_obs, run>>

\* MetricsRegistry::inc_error
inc_error_twice(m, collector) == [m EXCEPT !.agent_errors_total[collector] = @ + 2]

inc_error(m, collector) == [m EXCEPT !.agent_errors_total[collector] = @ + 1]

\* MetricsRegistry::observe_scrape_duration
observe_scrape_duration(m, collector, duration) ==
    [m EXCEPT !.agent_scrape_duration_seconds[collector] = duration]

\* One turn of the loop over the collectors: collect, then the bookkeeping of its result.
Collect(ok, elapsed) ==
    /\ run.phase # "exited"
    /\ tick_loop.pc = "collect"
    /\ tick_loop.i <= Len(Registered)
    /\ clock + elapsed <= MaxClock
    /\ clock' = clock + elapsed
    /\ agent_metrics' =
           observe_scrape_duration(
               IF ok THEN agent_metrics ELSE inc_error(agent_metrics, Registered[tick_loop.i]),
               Registered[tick_loop.i], elapsed)
    /\ status_state' =
           IF ok THEN status_state
           ELSE record_error(status_state,
                             CollectorError(Registered[tick_loop.i], "failed", tick_loop.ts_ms))
    /\ tick_loop' = [tick_loop EXCEPT
                        !.all_ok = @ /\ ok,
                        !.i = @ + 1,
                        !.results = Append(@, [collector |-> Registered[tick_loop.i],
                                               ok |-> ok])]
    /\ UNCHANGED <<agent_vars, event_vars, cli_vars, app_vars, conc_vars, tsdb_vars, snap, calls, recorded, collector_vars, ticker,
                   healthy, health_obs, run>>

\* set_last_scrape leaving the field alone (a seeded fault).
set_last_scrape_dropped(s, unix_ms) == s

\* StatusState::set_last_scrape
set_last_scrape(s, unix_ms) == [s EXCEPT !.last_scrape_unix_ms = unix_ms]

\* A health flag that stays true once a collector has succeeded.
store_healthy_any(results, all_ok) == results = <<>> \/ \E k \in DOMAIN results : results[k].ok

\* healthy_clone.store(all_ok, Ordering::Relaxed)
store_healthy(results, all_ok) == all_ok

\* StatusState::update_degradation_score
update_degradation_score(m, s) ==
    [m EXCEPT !.degradation_score = (IF s.disk_degraded THEN 1 ELSE 0)
                                      + (IF s.network_degraded THEN 1 ELSE 0)
                                      + (IF s.swap_degraded THEN 1 ELSE 0)]

\* The collection task writes the samples of the scrape when the agent has a local
\* TSDB and the last write is 30 s old.
TsdbDue == run.local_tsdb /\ tick_loop.ts_ms - tick_loop.last_tsdb_write_ms >= 30000

\* The end of a tick, after the loop over the collectors.
TickEnd ==
    /\ run.phase # "exited"
    /\ tick_loop.pc = "collect"
    /\ tick_loop.i > Len(Registered)
    /\ status_state' = set_last_scrape(status_state, tick_loop.ts_ms)
    /\ healthy' = store_healthy(tick_loop.results, tick_loop.all_ok)
    /\ agent_metrics' = update_degradation_score(agent_metrics, status_state)
    /\ IF TsdbDue
       THEN Written(ScrapeSamples(tick_loop.ts_ms),
                    write_samples(Store, ScrapeSamples(tick_loop.ts_ms)))
       ELSE UNCHANGED <<current, disk, accepted, tsdb_obs>>
    /\ tick_loop' = [tick_loop EXCEPT
                        !.pc = "tick",
                        !.ticks = @ + 1,
                        !.last = tick_loop.results,
                        !.last_tsdb_write_ms = IF TsdbDue THEN tick_loop.ts_ms ELSE @]
    /\ UNCHANGED <<agent_vars, event_vars, cli_vars, app_vars, conc_vars, tsdb_config, pruned, snap, calls, recorded, collector_vars,
                   clock, ticker, health_obs, run>>

\* health_handler
HealthHandler ==
    /\ run.phase # "exited"
    /\ health_obs' = IF healthy THEN 200 ELSE 503
    /\ UNCHANGED <<agent_vars, event_vars, cli_vars, app_vars, conc_vars, tsdb_vars, status_vars, collector_vars, clock, ticker,
                   tick_loop, healthy, agent_metrics, run>>

\* The ctrl_c branch of the select! of Agent::run: flush_current, the abort of the
\* pruner, return.  The collection task is not aborted.
CtrlC ==
    /\ run.phase = "running"
    /\ IF run.local_tsdb THEN Flushed(flush_current(Store))
       ELSE UNCHANGED <<current, disk, tsdb_obs>>
    /\ run' = [run EXCEPT !.phase = "returned", !.pruner = FALSE]
    /\ UNCHANGED <<agent_vars, event_vars, cli_vars, app_vars, conc_vars, accepted, tsdb_config, pruned, status_vars, collector_vars,
                   clock, ticker, tick_loop, healthy, agent_metrics, health_obs>>

\* The runtime is dropped when main returns: the spawned tasks end at their next await.
RuntimeDrop ==
    /\ run.phase = "returned"
    /\ run' = [run EXCEPT !.phase = "exited"]
    /\ UNCHANGED <<agent_vars, event_vars, cli_vars, app_vars, conc_vars, tsdb_vars, status_vars, collector_vars, clock, ticker,
                   tick_loop, healthy, agent_metrics, health_obs>>

\* Agent::new and the start of Agent::run: the first tick of the Interval is due at once.
LoopStart(scrape_interval, local_tsdb) ==
    /\ clock \in StartTimes
    /\ ticker = [period |-> scrape_interval, deadline |-> clock]
    /\ tick_loop = [pc |-> "tick", i |-> 1, all_ok |-> TRUE, ts_ms |-> 0,
                    last_tsdb_write_ms |-> 0, ticks |-> 0, results |-> <<>>, last |-> <<>>]
    /\ healthy = TRUE
    /\ agent_metrics = [agent_errors_total |-> [c \in {"cpu", "network", "app"} |-> 0],
                        agent_scrape_duration_seconds |-> [c \in {"cpu", "network", "app"} |-> 0],
                        degradation_score |-> 0]
    /\ health_obs = 0
    /\ run = [phase |-> "running", pruner |-> local_tsdb, local_tsdb |-> local_tsdb]

\* An agent with enable_local_tsdb off.
LoopInit == LoopStart(15 * 1000, FALSE)

(***************************************************************************)
(* The NVML event worker (agent-core/src/event_worker.rs) and the channel  *)
(* that GpuCollector::collect drains (collectors/gpu.rs).  The records     *)
(* are numbered in the order in which event_set.wait returned them.        *)
(***************************************************************************)
\* mpsc::channel::<EventRecord>(256)
EVENT_CHANNEL_CAPACITY == 256

MaxEvents == 258

EventRecord(kind, ts_ms) == [uuid |-> "U", index |-> "0", kind |-> kind, ts_ms |-> ts_ms]

NoEvent == EventRecord("none", 0)

\* What event_set.wait(5000) returns: an event, NvmlError::Timeout, another error.
WaitResults == {"xid", "timeout", "error"}

\* The worker's loop: event_set.wait, then the record it builds for an event.
EventWait(result) ==
    /\ event_worker.pc = "wait"
    /\ event_worker.polled < MaxEvents
    /\ event_worker' =
           IF result = "timeout" THEN event_worker
           ELSE IF result = "error" THEN [event_worker EXCEPT !.pc = "exited"]
           ELSE [event_worker EXCEPT !.pc = "send",
                                     !.polled = @ + 1,
                                     !.pending = EventRecord(result, event_worker.polled + 1)]
    /\ UNCHANGED <<agent_vars, tsdb_vars, status_vars, collector_vars, loop_vars,
                   event_channel, cli_vars, app_vars, conc_vars>>

\* tx.send(record).await returns: Sender::send waits for a free slot of the channel.
EventSend ==
    /\ event_worker.pc = "send"
    /\ Len(event_channel) < EVENT_CHANNEL_CAPACITY
    /\ event_channel' = Append(event_channel, event_worker.pending)
    /\ event_worker' = [event_worker EXCEPT !.pc = "wait", !.pending = NoEvent]
    /\ UNCHANGED <<agent_vars, tsdb_vars, status_vars, collector_vars, loop_vars,
                   cli_vars, app_vars, conc_vars>>

\* The drain of GpuCollector::collect: rx.try_recv() until the channel is empty, one
\* increment of gpu_events_total for every record.
DrainEvents ==
    /\ registry' = [registry EXCEPT !.gpu_events_total = @ + Len(event_channel)]
    /\ event_channel' = <<>>
    /\ UNCHANGED <<agent_vars, tsdb_vars, status_vars, loop_vars, collectors, collected,
                   event_worker, cli_vars, app_vars, conc_vars>>

\* GpuCollector::new with enable_gpu_events on, and spawn_event_worker.
EventInit ==
    /\ event_channel = <<>>
    /\ event_worker = [pc |-> "wait", polled |-> 0, pending |-> NoEvent]

(***************************************************************************)
(* Configuration: AgentConfig, ConfigOverrides and the command line        *)
(***************************************************************************)

\* AgentConfig::default(), with HOME and XDG_DATA_HOME unset. Durations are in seconds.
DefaultAgentConfig ==
    [listen_address |-> "0.0.0.0:9100",
     scrape_interval |-> 5,
     enable_cpu |-> TRUE,
     enable_memory |-> TRUE,
     enable_disk |-> TRUE,
     enable_network |-> TRUE,
     enable_gpu |-> TRUE,
     enable_gpu_amd |-> FALSE,
     enable_power |-> TRUE,
     enable_gpu_mig |-> FALSE,
     enable_gpu_events |-> FALSE,
     gpu_visible_devices |-> NoneStr,
     mig_config_devices |-> NoneStr,
     k8s_mode |-> FALSE,
     enable_mcp |-> FALSE,
     enable_app |-> FALSE,
     enable_rack_thermals |-> FALSE,
     managed_server |-> NoneStr,
     managed_cluster_id |-> NoneStr,
     managed_node_id |-> NoneStr,
     managed_join_token |-> NoneStr,
     managed_last_contact_unix_ms |-> NoneU64,
     node_power_envelope_watts |-> NoneF64,
     enable_local_tsdb |-> TRUE,
     local_tsdb_path |-> "/var/lib/esnode/tsdb",
     local_tsdb_retention_hours |-> 48,
     local_tsdb_max_disk_mb |-> 2048,
     log_level |-> "info",
     orchestrator |-> NoOrchestratorConfig,
     app_metrics_url |-> "http://127.0.0.1:8000/metrics"]

\* The names of the fields of AgentConfig, which are those of ConfigOverrides.
ConfigFields == DOMAIN DefaultAgentConfig

BoolFields ==
    {"enable_cpu", "enable_memory", "enable_disk", "enable_network", "enable_gpu",
     "enable_gpu_amd", "enable_power", "enable_gpu_mig", "enable_gpu_events", "k8s_mode",
     "enable_mcp", "enable_app", "enable_rack_thermals", "enable_local_tsdb"}

\* The fields of type Option<String>, of which the override is an Option<Option<String>>.
OptStringFields ==
    {"gpu_visible_devices", "mig_config_devices", "managed_server", "managed_cluster_id",
     "managed_node_id", "managed_join_token"}

StringFields == {"listen_address", "local_tsdb_path", "app_metrics_url", "log_level"}

U64Fields == {"scrape_interval", "local_tsdb_retention_hours", "local_tsdb_max_disk_mb"}

\* An override that is None, for a field of each type.
AbsentOf(f) ==
    CASE f \in BoolFields -> [some |-> FALSE, v |-> FALSE]
      [] f \in OptStringFields -> [some |-> FALSE, v |-> NoneStr]
      [] f \in StringFields -> NoneStr
      [] f \in U64Fields -> NoneU64
      [] f = "managed_last_contact_unix_ms" -> [some |-> FALSE, v |-> NoneU64]
      [] f = "node_power_envelope_watts" -> NoneF64
      [] f = "orchestrator" -> NoOrchestratorConfig

\* ConfigOverrides::default(): every override is None.
NoOverrides == [f \in ConfigFields |-> AbsentOf(f)]

\* if let Some(x) = overrides.f { self.f = x; }
Overridden_always(field, override) == override.v

Overridden(field, override) == IF override.some THEN override.v ELSE field

\* if let Some(x) = overrides.f { self.f = Some(x); }
OverriddenSome(field, override) == IF override.some THEN Some(override.v) ELSE field

apply_overrides(self, overrides) ==
    [self EXCEPT
       !.listen_address = Overridden(@, overrides.listen_address),
       !.orchestrator = OverriddenSome(@, overrides.orchestrator),
       !.scrape_interval = Overridden(@, overrides.scrape_interval),
       !.enable_cpu = Overridden(@, overrides.enable_cpu),
       !.enable_memory = Overridden(@, overrides.enable_memory),
       !.enable_disk = Overridden(@, overrides.enable_disk),
       !.enable_network = Overridden(@, overrides.enable_network),
       !.enable_gpu = Overridden(@, overrides.enable_gpu),
       !.enable_gpu_amd = Overridden(@, overrides.enable_gpu_amd),
       !.enable_power = Overridden(@, overrides.enable_power),
       !.enable_gpu_mig = Overridden(@, overrides.enable_gpu_mig),
       !.enable_gpu_events = Overridden(@, overrides.enable_gpu_events),
       !.gpu_visible_devices = Overridden(@, overrides.gpu_visible_devices),
       !.mig_config_devices = Overridden(@, overrides.mig_config_devices),
       !.k8s_mode = Overridden(@, overrides.k8s_mode),
       !.enable_mcp = Overridden(@, overrides.enable_mcp),
       !.enable_app = Overridden(@, overrides.enable_app),
       !.enable_rack_thermals = Overridden(@, overrides.enable_rack_thermals),
       !.managed_server = Overridden(@, overrides.managed_server),
       !.managed_cluster_id = Overridden(@, overrides.managed_cluster_id),
       !.managed_node_id = Overridden(@, overrides.managed_node_id),
       !.managed_join_token = Overridden(@, overrides.managed_join_token),
       !.managed_last_contact_unix_ms = Overridden(@, overrides.managed_last_contact_unix_ms),
       !.node_power_envelope_watts = OverriddenSome(@, overrides.node_power_envelope_watts),
       !.enable_local_tsdb = Overridden(@, overrides.enable_local_tsdb),
       !.local_tsdb_path = Overridden(@, overrides.local_tsdb_path),
       !.local_tsdb_retention_hours = Overridden(@, overrides.local_tsdb_retention_hours),
       !.local_tsdb_max_disk_mb = Overridden(@, overrides.local_tsdb_max_disk_mb),
       !.log_level = Overridden(@, overrides.log_level),
       !.app_metrics_url = Overridden(@, overrides.app_metrics_url)]

\* The values an override of the field f takes in the model.
OverrideValues(f) ==
    CASE f \in BoolFields -> BOOLEAN
      [] f \in OptStringFields -> {NoneStr, Some("srv")}
      [] f = "listen_address" -> {"1.2.3.4:9999"}
      [] f = "local_tsdb_path" -> {"/tmp/tsdb"}
      [] f = "app_metrics_url" -> {"http://127.0.0.1:9000/metrics"}
      [] f = "log_level" -> {"debug"}
      [] f = "scrape_interval" -> {10}
      [] f = "local_tsdb_retention_hours" -> {12}
      [] f = "local_tsdb_max_disk_mb" -> {321}
      [] f = "managed_last_contact_unix_ms" -> {NoneU64, Some(123)}
      [] f = "node_power_envelope_watts" -> {F(456, 0)}
      [] f = "orchestrator" -> {OrchestratorConfig(TRUE, FALSE, NoneStr)}

\* The overrides of the test overrides_apply_all_booleans_and_scalars.
TestOverrides ==
    [NoOverrides EXCEPT
       !.enable_cpu = Some(FALSE), !.enable_memory = Some(FALSE), !.enable_disk = Some(FALSE),
       !.enable_network = Some(FALSE), !.enable_gpu = Some(FALSE),
       !.enable_gpu_amd = Some(TRUE), !.enable_power = Some(FALSE),
       !.enable_gpu_mig = Some(TRUE), !.enable_gpu_events = Some(TRUE),
       !.gpu_visible_devices = Some(Some("GPU-123,1")),
       !.mig_config_devices = Some(Some("GPU-123")),
       !.k8s_mode = Some(TRUE), !.enable_mcp = Some(TRUE), !.enable_app = Some(TRUE),
       !.enable_rack_thermals = Some(TRUE),
       !.listen_address = Some("1.2.3.4:9999"), !.scrape_interval = Some(10),
       !.enable_local_tsdb = Some(FALSE), !.local_tsdb_path = Some("/tmp/tsdb"),
       !.local_tsdb_retention_hours = Some(12), !.local_tsdb_max_disk_mb = Some(321),
       !.managed_server = Some(Some("srv")), !.managed_cluster_id = Some(Some("cluster")),
       !.managed_node_id = Some(Some("node")), !.managed_join_token = Some(Some("token")),
       !.managed_last_contact_unix_ms = Some(Some(123)),
       !.node_power_envelope_watts = Some(F(456, 0))]

\* The overrides applied in the model: none, one field, or those of the test.
OverrideInputs ==
    {NoOverrides, TestOverrides}
      \cup UNION { { [NoOverrides EXCEPT ![f] = Some(v)] : v \in OverrideValues(f) } :
                   f \in ConfigFields }

MaxApplies == 2

\* What the last command or call returned; n counts the calls of apply_overrides.
CliObs(op, ok) ==
    [op |-> op, ok |-> ok, before |-> DefaultAgentConfig, overrides |-> NoOverrides, n |-> 0]

\* config.apply_overrides(overrides), as main calls it for the file and for the CLI.
ApplyOverrides(overrides) ==
    /\ cli_obs.n < MaxApplies
    /\ cli_config' = apply_overrides(cli_config, overrides)
    /\ cli_obs' = [CliObs("apply_overrides", TRUE) EXCEPT
                     !.before = cli_config, !.overrides = overrides, !.n = cli_obs.n + 1]
    /\ UNCHANGED <<agent_vars, tsdb_vars, status_vars, collector_vars, loop_vars, event_vars,
                   app_vars, conc_vars, config_file>>

NoFile == [exists |-> FALSE, keys |-> <<>>]

\* A field that is None, which toml::to_string_pretty leaves out of the file.
IsNoneField(cfg, f) ==
    /\ f \in OptStringFields \cup {"managed_last_contact_unix_ms", "node_power_envelope_watts",
                                   "orchestrator"}
    /\ ~cfg[f].some

\* The TOML value of a field: the content of an Option, a humantime string for the
\* Duration (the number and its unit), the value itself otherwise.
ToToml(cfg, f) ==
    IF f = "scrape_interval" THEN <<cfg[f], "s">>
    ELSE IF f \in OptStringFields \cup {"managed_last_contact_unix_ms",
                                        "node_power_envelope_watts", "orchestrator"}
         THEN cfg[f].v
         ELSE cfg[f]

\* The override a key of the file deserializes to.
FromTomlKey(f, t) ==
    IF f = "scrape_interval" THEN Some(t[1])
    ELSE IF f \in OptStringFields \cup {"managed_last_contact_unix_ms"} THEN Some(Some(t))
    ELSE Some(t)

\* toml::from_str::<ConfigOverrides>: a key that is missing gives None.
FromToml(keys) ==
    [f \in ConfigFields |-> IF f \in DOMAIN keys THEN FromTomlKey(f, keys[f]) ELSE AbsentOf(f)]

\* persist_config: the file holds the fields of the config that are not None.
persist_config(cfg) ==
    [exists |-> TRUE,
     keys |-> [f \in {g \in ConfigFields : ~IsNoneField(cfg, g)} |-> ToToml(cfg, f)]]

\* AgentConfig::default() with the overrides of the file, when it exists.
Loaded(file) ==
    IF file.exists THEN apply_overrides(DefaultAgentConfig, FromToml(file.keys))
    ELSE DefaultAgentConfig

\* ensure_local_control letting every node through (a seeded fault).
ensure_local_control_skipped(cfg) == TRUE

\* ensure_local_control: TRUE for Ok(()), FALSE for the bail! of a managed node.
ensure_local_control(cfg) == ~cfg.managed_server.some

MetricSets == {"Host", "Gpu", "Power", "Mcp", "App", "All"}

\* The match of command_toggle_metric_set.
Toggled(cfg, set, enable) ==
    CASE set = "Host" -> [cfg EXCEPT !.enable_cpu = enable, !.enable_memory = enable,
                                     !.enable_disk = enable, !.enable_network = enable]
      [] set = "Gpu" -> [cfg EXCEPT !.enable_gpu = enable]
      [] set = "Power" -> [cfg EXCEPT !.enable_power = enable]
      [] set = "Mcp" -> [cfg EXCEPT !.enable_mcp = enable]
      [] set = "App" -> [cfg EXCEPT !.enable_app = enable]
      [] set = "All" -> [cfg EXCEPT !.enable_cpu = enable, !.enable_memory = enable,
                                    !.enable_disk = enable, !.enable_network = enable,
                                    !.enable_gpu = enable, !.enable_power = enable,
                                    !.enable_mcp = enable, !.enable_app = enable,
                                    !.enable_rack_thermals = enable]

\* What a command returns and leaves: Ok or Err, the config it built, the file.
CommandResult(ok, cfg, file) == [ok |-> ok, config |-> cfg, file |-> file]

command_toggle_metric_set(file, set, enable) ==
    IF ~ensure_local_control(Loaded(file)) THEN CommandResult(FALSE, Loaded(file), file)
    ELSE CommandResult(TRUE, Toggled(Loaded(file), set, enable),
                       persist_config(Toggled(Loaded(file), set, enable)))

\* str::parse::<bool>
ParseBool(val) ==
    IF val \in {"true", "false"} THEN Some(val = "true") ELSE [some |-> FALSE, v |-> FALSE]

\* The keys of apply_config_kv the model sets.
ConfigKeys == {"listen_address", "enable_gpu", "managed_server"}

\* apply_config_kv: the config, or Err for an unknown key or a value that does not parse.
apply_config_kv(cfg, key, val) ==
    CASE key = "listen_address" -> Some([cfg EXCEPT !.listen_address = val])
      [] key = "enable_gpu" ->
             IF ParseBool(val).some THEN Some([cfg EXCEPT !.enable_gpu = ParseBool(val).v])
             ELSE [some |-> FALSE, v |-> cfg]
      [] key = "managed_server" -> Some([cfg EXCEPT !.managed_server = Some(val)])
      [] OTHER -> [some |-> FALSE, v |-> cfg]

\* The argument of `config set`: eq is whether it has a '=', which split_once needs.
Pair(eq, key, val) == [eq |-> eq, key |-> key, val |-> val]

command_config_set(file, pair) ==
    IF ~pair.eq THEN CommandResult(FALSE, DefaultAgentConfig, file)
    ELSE IF ~ensure_local_control(Loaded(file)) THEN CommandResult(FALSE, Loaded(file), file)
    ELSE IF ~apply_config_kv(Loaded(file), pair.key, pair.val).some
         THEN CommandResult(FALSE, Loaded(file), file)
         ELSE CommandResult(TRUE, apply_config_kv(Loaded(file), pair.key, pair.val).v,
                            persist_config(apply_config_kv(Loaded(file), pair.key, pair.val).v))

\* default_node_id() with HOSTNAME unset.
default_node_id == "node-unknown"

\* The config command_server_connect persists; main passes no token.
Connected(cfg, address, now_ms) ==
    [cfg EXCEPT !.managed_server = Some(address),
                !.managed_join_token = NoneStr,
                !.managed_node_id = IF @.some THEN @ ELSE Some(default_node_id),
                !.managed_cluster_id = IF @.some THEN @ ELSE Some("unknown-cluster"),
                !.managed_last_contact_unix_ms = Some(now_ms)]

command_server_connect(file, cfg, address, now_ms) ==
    CommandResult(TRUE, Connected(cfg, address, now_ms),
                  persist_config(Connected(cfg, address, now_ms)))

\* The config command_server_disconnect persists.
Disconnected(cfg) ==
    [cfg EXCEPT !.managed_server = NoneStr, !.managed_cluster_id = NoneStr,
                !.managed_node_id = NoneStr, !.managed_join_token = NoneStr,
                !.managed_last_contact_unix_ms = NoneU64]

command_server_disconnect(file, cfg) ==
    CommandResult(TRUE, Disconnected(cfg), persist_config(Disconnected(cfg)))

\* The config main hands to a command: the defaults, the file, the command line.
Effective(file, cli) == apply_overrides(Loaded(file), cli)

\* The command lines of the server commands: no flag, --managed-node-id, --log-level.
CliOverrides ==
    { NoOverrides,
      [NoOverrides EXCEPT !.managed_node_id = Some(Some("node"))],
      [NoOverrides EXCEPT !.log_level = Some("debug")] }

ConfigPairs ==
    { Pair(FALSE, "enable_gpu", ""), Pair(TRUE, "enable_gpu", "false"),
      Pair(TRUE, "enable_gpu", "yes"), Pair(TRUE, "listen_address", "127.0.0.1:9100"),
      Pair(TRUE, "managed_server", "pulse:443"), Pair(TRUE, "bogus", "1") }

ServerAddresses == {"pulse.example:443"}

\* The process of a command ends: the file it left and what it returned.
Commanded(op, r) ==
    /\ config_file' = r.file
    /\ cli_config' = r.config
    /\ cli_obs' = [CliObs(op, r.ok) EXCEPT !.n = cli_obs.n]
    /\ UNCHANGED <<agent_vars, tsdb_vars, status_vars, collector_vars, loop_vars, event_vars,
                   app_vars, conc_vars>>

\* esnode-core enable-metric-set <set> / disable-metric-set <set>
ToggleMetricSet(set, enable) ==
    Commanded(IF enable THEN "enable_metric_set" ELSE "disable_metric_set",
              command_toggle_metric_set(config_file, set, enable))

\* esnode-core config set <key=value>
ConfigSet(pair) == Commanded("config_set", command_config_set(config_file, pair))

\* esnode-core server connect <address>
ServerConnect(cli, address) ==
    Commanded("server_connect",
              command_server_connect(config_file, Effective(config_file, cli), address, clock))

\* esnode-core server disconnect
ServerDisconnect(cli) ==
    Commanded("server_disconnect",
              command_server_disconnect(config_file, Effective(config_file, cli)))

CliInit ==
    /\ config_file = NoFile
    /\ cli_config = DefaultAgentConfig
    /\ cli_obs = CliObs("none", TRUE)

(***************************************************************************)
(* The app collector (collectors/app.rs) and the /proc/stat part of the    *)
(* cpu collector (collectors/cpu.rs), run by the ticks of an agent whose   *)
(* collectors are cpu and app.                                             *)
(***************************************************************************)
\* A line of the body: a comment, or a name followed by a value that parses as an f64 or
\* does not.
Comment == [comment |-> TRUE, name |-> "#", val |-> NoneF64]

Line(name, val) == [comment |-> FALSE, name |-> name, val |-> val]

\* The prefixes parse_tokens sums.
TokenNames == {"vllm:generation_tokens_total", "vllm:prompt_tokens_total",
               "tgi_generated_tokens", "model_tokens_total"}

\* The loop of parse_tokens from line i on.
RECURSIVE SumTokens(_, _, _)
SumTokens(body, i, acc) ==
    IF i > Len(body) THEN acc
    ELSE IF ~body[i].comment /\ body[i].name \in TokenNames /\ body[i].val.some
         THEN SumTokens(body, i + 1, Some(FAdd(acc.v, body[i].val.v)))
         ELSE SumTokens(body, i + 1, acc)

\* AppCollector::parse_tokens
parse_tokens(body) == SumTokens(body, 1, NoneF64)

\* What the GET of the endpoint gives: send() fails, text() fails, or a body.
Response(send_ok, text) == [send_ok |-> send_ok, text |-> text]

NoBody == [some |-> FALSE, v |-> <<>>]

\* AppCollector::fetch_metrics
fetch_metrics(resp) == IF resp.send_ok THEN resp.text ELSE NoBody

\* AppCollector::new
AppCollector == [last_tokens |-> NoneF64, last_ts |-> NoneU64, warned |-> FALSE]

\* The rate of the tokens between two fetches dt_ms apart.
TokenRate(current_tokens, prev_tokens, dt_ms) ==
    FDiv(FSub(current_tokens, prev_tokens), FDiv(Norm(dt_ms, 0), F(1, 3)))

\* What collect returns: the Result, the collector, whether it logged at warn level and
\* the rate it set.
Collected(ok, self, warn, rate) == [ok |-> ok, self |-> self, warn |-> warn, rate |-> rate]

\* The branch of collect for a body whose tokens parse.
CollectTokens(self, current_tokens, now) ==
    Collected(TRUE,
              [self EXCEPT !.last_tokens = Some(current_tokens), !.last_ts = Some(now),
                           !.warned = FALSE],
              FALSE,
              IF /\ self.last_tokens.some /\ self.last_ts.some
                 /\ now - self.last_ts.v > 0
                 /\ FGe(current_tokens, self.last_tokens.v)
              THEN Some(TokenRate(current_tokens, self.last_tokens.v, now - self.last_ts.v))
              ELSE NoneF64)

\* The suppression flag after a body without token lines: the reset of collect is inside
\* the branch of the parsed tokens.
warned_after_fetch(warned) == warned

\* AppCollector::collect, given what fetch_metrics returned.
CollectBody(self, body, now) ==
    IF ~body.some
    THEN Collected(TRUE, [self EXCEPT !.warned = TRUE], ~self.warned, NoneF64)
    ELSE IF parse_tokens(body.v).some
         THEN CollectTokens(self, parse_tokens(body.v).v, now)
         ELSE Collected(TRUE, [self EXCEPT !.warned = warned_after_fetch(@)], FALSE, NoneF64)

\* What read_proc_stat gives: None when /proc/stat cannot be read, or the ctxt counter.
NoStat == NoneU64

\* The end of CpuCollector::collect: the counters move by the difference to the previous
\* reading when /proc/stat was read, and the call returns Ok either way.
CollectStat(prev, ctxt_total, stat) ==
    [ok |-> TRUE,
     prev |-> IF stat.some THEN stat ELSE prev,
     ctxt_total |-> IF stat.some /\ prev.some
                    THEN ctxt_total + saturating_sub(stat.v, prev.v) ELSE ctxt_total]

\* The bookkeeping of the collection task for the result of one collector.
BookedMetrics(m, collector, ok) == IF ok THEN m ELSE inc_error(m, collector)

BookedStatus(s, collector, ok, ts_ms) ==
    IF ok THEN s ELSE record_error(s, CollectorError(collector, "failed", ts_ms))

\* The responses of the endpoint: unreachable, a body that cannot be read, bodies with
\* and without token lines.
Responses ==
    { Response(FALSE, NoBody),
      Response(TRUE, NoBody),
      Response(TRUE, Some(<<>>)),
      Response(TRUE, Some(<<Comment, Line("up", Some(F(1, 0)))>>)),
      Response(TRUE, Some(<<Line("model_tokens_total", NoneF64)>>)),
      Response(TRUE, Some(<<Line("vllm:generation_tokens_total", Some(F(1, 2))),
                            Line("vllm:prompt_tokens_total", Some(F(5, 1)))>>)),
      Response(TRUE, Some(<<Comment, Line("tgi_generated_tokens", Some(F(4, 2)))>>)) }

StatInputs == {NoStat, Some(10), Some(25)}

TickGaps == {0, 5000}

MaxAppTicks == 3

\* The entry of the log of the ticks: what the sources gave and what the collectors did.
AppTicked(stat, resp, c, a, ts_ms) ==
    [stat_read |-> stat.some, fetched |-> fetch_metrics(resp).some,
     parsed |-> fetch_metrics(resp).some /\ parse_tokens(fetch_metrics(resp).v).some,
     cpu_ok |-> c.ok, app_ok |-> a.ok, warn |-> a.warn, ts_ms |-> ts_ms]

AppTickWith(stat, resp, c, a) ==
    /\ app' = [app EXCEPT !.collector = a.self, !.prev = c.prev, !.ctxt_total = c.ctxt_total,
                          !.ticks = @ + 1]
    /\ app_log' = Append(app_log, AppTicked(stat, resp, c, a, clock'))
    /\ agent_metrics' =
           update_degradation_score(
               BookedMetrics(BookedMetrics(agent_metrics, "cpu", c.ok), "app", a.ok),
               status_state)
    /\ status_state' =
           set_last_scrape(
               [BookedStatus(BookedStatus(status_state, "cpu", c.ok, clock'),
                             "app", a.ok, clock')
                   EXCEPT !.host.app_tokens_per_sec = IF a.rate.some THEN a.rate ELSE @],
               clock')
    /\ healthy' = store_healthy(<<[collector |-> "cpu", ok |-> c.ok],
                                  [collector |-> "app", ok |-> a.ok]>>, c.ok /\ a.ok)

\* One tick of the collection task: the cpu collector, the app collector, then
\* set_last_scrape and the health flag.
AppTick(gap, stat, resp) ==
    /\ app.ticks < MaxAppTicks
    /\ clock' = clock + gap
    /\ AppTickWith(stat, resp,
                   CollectStat(app.prev, app.ctxt_total, stat),
                   CollectBody(app.collector, fetch_metrics(resp), clock + gap))
    /\ UNCHANGED <<agent_vars, tsdb_vars, snap, calls, recorded, collector_vars, event_vars,
                   cli_vars, conc_vars, ticker, tick_loop, health_obs, run>>

AppInit ==
    /\ app = [collector |-> AppCollector, prev |-> NoneU64, ctxt_total |-> 0, ticks |-> 0]
    /\ app_log = <<>>

(***************************************************************************)
(* Concurrent callers of the LocalTsdb (agent-core/src/tsdb.rs).  Each     *)
(* caller makes one call; a step is what a call does between two awaits on *)
(* which another task can run: the lock, one sample of write_samples, the  *)
(* whole of snapshot_current or flush_current.                             *)
(***************************************************************************)
Writers == {"writer1", "writer2"}

Callers == Writers \cup {"reader"}

\* The metric of the samples of each writer, which tells their lines apart.
WriterMetric == [writer1 |-> CpuLoad, writer2 |-> GpuPower]

\* The batches of the writers: one or two samples of the first window, or one of the
\* first and one of the second.
WriterBatches ==
    [writer1 |-> { <<Sample(CpuLoad, {}, 31000, F(25, -2))>>,
                   <<Sample(CpuLoad, {}, 31000, F(25, -2)),
                     Sample(CpuLoad, {}, 31000, F(25, -2))>>,
                   <<Sample(CpuLoad, {}, 31000, F(25, -2)),
                     Sample(CpuLoad, {}, BLOCK_DURATION, F(25, -2))>> },
     writer2 |-> { <<Sample(GpuPower, {<<"gpu", "0">>}, 1000, F(15, -1))>>,
                   <<Sample(GpuPower, {<<"gpu", "0">>}, 1000, F(15, -1)),
                     Sample(GpuPower, {<<"gpu", "0">>}, 2000, F(15, -1))>> }]

ReaderOps == {"snapshot_current", "flush_current"}

\* A caller: pc is idle, lock (awaiting the mutex), held (holding the guard) or done; i
\* is the index of the next sample of its batch.
Caller(pc, op, samples, i) == [pc |-> pc, op |-> op, samples |-> samples, i |-> i]

\* Mutex::lock granting the guard whoever holds it (a seeded fault).
mutex_free_always(holder) == TRUE

\* tokio::sync::Mutex::lock: the guard is granted when no one holds it.
mutex_free(holder) == holder = "none"

\* The guard of the caller t is dropped.
Dropped(holder, t) == IF holder = t THEN "none" ELSE holder

\* write_samples(samples) is called and reaches self.current.lock().await.
CallWriteSamples(t, samples) ==
    /\ tsdb_tasks.pcs[t].pc = "idle"
    /\ tsdb_tasks' = [tsdb_tasks EXCEPT !.pcs[t] = Caller("lock", "write_samples", samples, 1)]
    /\ UNCHANGED <<agent_vars, tsdb_vars, status_vars, collector_vars, loop_vars, event_vars,
                   cli_vars, app_vars>>

\* snapshot_current() or flush_current() is called and reaches self.current.lock().await.
CallReader(op) ==
    /\ tsdb_tasks.pcs["reader"].pc = "idle"
    /\ tsdb_tasks' = [tsdb_tasks EXCEPT !.pcs["reader"] = Caller("lock", op, <<>>, 1)]
    /\ UNCHANGED <<agent_vars, tsdb_vars, status_vars, collector_vars, loop_vars, event_vars,
                   cli_vars, app_vars>>

\* self.current.lock().await returns the guard.
Lock(t) ==
    /\ tsdb_tasks.pcs[t].pc = "lock"
    /\ mutex_free(tsdb_tasks.holder)
    /\ tsdb_tasks' = [tsdb_tasks EXCEPT !.holder = t, !.pcs[t].pc = "held"]
    /\ UNCHANGED <<agent_vars, tsdb_vars, status_vars, collector_vars, loop_vars, event_vars,
                   cli_vars, app_vars>>

\* The state of the caller after the sample i of its batch: `?` returns on Err, the loop
\* ends after the last sample; both drop the guard.
AfterSample(tasks, t, r) ==
    IF r.err \/ tasks.pcs[t].i = Len(tasks.pcs[t].samples)
    THEN [tasks EXCEPT !.holder = Dropped(@, t), !.pcs[t].pc = "done", !.pcs[t].i = @ + 1]
    ELSE [tasks EXCEPT !.pcs[t].i = @ + 1]

WriteStepWith(t, r) ==
    /\ Stored(r)
    /\ tsdb_tasks' = AfterSample(tsdb_tasks, t, r)
    /\ accepted' = IF r.err THEN accepted ELSE Append(accepted, tsdb_tasks.pcs[t].samples[tsdb_tasks.pcs[t].i])
    /\ Returned("write_samples", r)

\* One turn of the loop of write_samples: ensure_block_for_ts, then write_sample.
WriteStep(t) ==
    /\ tsdb_tasks.pcs[t].pc = "held"
    /\ tsdb_tasks.pcs[t].op = "write_samples"
    /\ WriteStepWith(t, WriteEnsured(
                            ensure_block_for_ts(
                                Store, tsdb_tasks.pcs[t].samples[tsdb_tasks.pcs[t].i].ts_ms),
                            tsdb_tasks.pcs[t].samples[tsdb_tasks.pcs[t].i]))
    /\ UNCHANGED <<agent_vars, status_vars, collector_vars, loop_vars, event_vars,
                   cli_vars, app_vars, tsdb_config, pruned>>

\* The body of snapshot_current or of flush_current under the guard.
ReaderStep ==
    /\ tsdb_tasks.pcs["reader"].pc = "held"
    /\ IF tsdb_tasks.pcs["reader"].op = "snapshot_current"
       THEN /\ Stored(snapshot_current(Store))
            /\ tsdb_obs' = TsdbObs("snapshot_current", NoQuery, <<>>)
       ELSE Flushed(flush_current(Store))
    /\ tsdb_tasks' = [tsdb_tasks EXCEPT !.holder = Dropped(@, "reader"),
                                        !.pcs["reader"].pc = "done"]
    /\ UNCHANGED <<agent_vars, status_vars, collector_vars, loop_vars, event_vars,
                   cli_vars, app_vars, accepted, tsdb_config, pruned>>

\* No call of the LocalTsdb in progress.
ConcInit ==
    tsdb_tasks = [holder |-> "none", pcs |-> [t \in Callers |-> Caller("idle", "none", <<>>, 1)]]

EmptyDevices == [id \in {} |-> NoDevice]

OrchInit ==
    /\ devices = EmptyDevices
    /\ dev_order = <<>>
    /\ pending_tasks = <<>>
    /\ submitted = 0
    /\ obs = Obs("none", NoneStr, 0)

\* The scheduler on a loopback listener, with a bearer token configured.
Init ==
    /\ config \in { c \in AgentConfigs :
                      /\ c.listen_address = ListenV4(<<127, 0, 0, 1>>)
                      /\ c.orchestrator.some
                      /\ c.orchestrator.v.enabled
                      /\ ~c.orchestrator.v.allow_public
                      /\ c.orchestrator.v.token.some }
    /\ OrchInit
    /\ StatusInit
    /\ CollectorInit
    /\ LoopInit
    /\ EventInit
    /\ CliInit
    /\ AppInit
    /\ ConcInit
    /\ TsdbInit

Next ==
    \/ \E hdr \in ClientHeaders, dev \in DeviceInputs : Register(hdr, dev)
    \/ \E hdr \in ClientHeaders, shape \in TaskShapes : Submit(hdr, shape)
    \/ \E hdr \in ClientHeaders : GetMetrics(hdr)
    \/ Tick

Spec == Init /\ [][Next]_vars

\* Every configuration of the listener and of the orchestrator block, probed with every
\* Authorization header, one device body and one task body.
HttpInit ==
    /\ config \in AgentConfigs
    /\ OrchInit
    /\ StatusInit
    /\ CollectorInit
    /\ LoopInit
    /\ EventInit
    /\ CliInit
    /\ AppInit
    /\ ConcInit
    /\ TsdbInit

HttpNext ==
    \/ \E hdr \in AuthHeaders :
          Register(hdr, Device("A", "Gpu", F(100, 0), F(50, 0), F(250, 0), F(1, -1)))
    \/ \E hdr \in AuthHeaders :
          Submit(hdr, Task(0, F(2, 14), F(1, 9), "Low", Some({"Cpu"})))
    \/ \E hdr \in AuthHeaders : GetMetrics(hdr)
    \/ Tick

HttpSpec == HttpInit /\ [][HttpNext]_vars

\* The local buffer of an agent, under every retention and disk budget of TsdbConfigs.
TsdbSpecInit ==
    /\ config = [listen_address |-> ListenV4(<<0, 0, 0, 0>>),
                 orchestrator |-> NoOrchestratorConfig]
    /\ OrchInit
    /\ StatusInit
    /\ CollectorInit
    /\ LoopInit
    /\ EventInit
    /\ CliInit
    /\ AppInit
    /\ ConcInit
    /\ current = NoneWriter
    /\ disk = NoDisk
    /\ accepted = <<>>
    /\ tsdb_obs = TsdbObs("none", NoQuery, <<>>)
    /\ tsdb_config \in TsdbConfigs
    /\ pruned = {}

TsdbNext ==
    \/ \E samples \in Batches : WriteSamples(samples)
    \/ SnapshotCurrent
    \/ FlushCurrent
    \/ \E q \in ExportQueries : ExportLines(q)
    \/ \E now_ms \in NowInputs : Prune(now_ms)

TsdbSpec == TsdbSpecInit /\ [][TsdbNext]_vars

\* The status store of an agent with the default configuration: the collectors' setter
\* calls, interleaved with the reads of a snapshot() of the HTTP server.
StatusSpecInit ==
    /\ config = [listen_address |-> ListenV4(<<0, 0, 0, 0>>),
                 orchestrator |-> NoOrchestratorConfig]
    /\ OrchInit
    /\ StatusInit
    /\ CollectorInit
    /\ LoopInit
    /\ EventInit
    /\ CliInit
    /\ AppInit
    /\ ConcInit
    /\ TsdbInit

StatusNext ==
    \/ Snapshot
    \/ \E tokens_per_sec \in TokenRates : SetAppMetrics(tokens_per_sec)
    \/ \E watts \in PowerInputs : SetNodePower(watts)
    \/ \E p \in PackageInputs : SetCpuPackagePower(p)
    \/ \E readings \in TemperatureInputs : SetCpuTemperatures(readings)
    \/ \E statuses \in GpuStatusInputs : SetGpuStatuses(statuses)
    \/ \E m \in MemoryInputs : SetMemorySummary(m)
    \/ \E degraded \in BOOLEAN : SetDiskDegraded(degraded)
    \/ \E degraded \in BOOLEAN : SetNetworkDegraded(degraded)
    \/ \E degraded \in BOOLEAN : SetSwapDegraded(degraded)
    \/ \E collector \in ErrorCollectors : RecordError(collector)

StatusSpec == StatusSpecInit /\ [][StatusNext]_vars

\* The collectors of the same agent, called tick after tick with the readings of their
\* sources.
CollectorNext ==
    \/ \E stat \in CpuReadings : CollectCpu(stat)
    \/ \E data \in NetworkReadings, netdev \in NetDevReadings,
          retrans_total \in RetransReadings : CollectNetwork(data, netdev, retrans_total)
    \/ \E ecc \in EccReadings : CollectGpuEcc(ecc)
    \/ \E energy \in EnergyReadings, max_range \in RangeReadings, dt \in Durations :
           CollectRapl(energy, max_range, dt)

CollectorSpec == StatusSpecInit /\ [][CollectorNext]_vars

\* The collection task of an agent, /healthz and the shutdown signal, with and without a
\* local TSDB.
AgentSpecInit ==
    /\ config = [listen_address |-> ListenV4(<<0, 0, 0, 0>>),
                 orchestrator |-> NoOrchestratorConfig]
    /\ OrchInit
    /\ StatusInit
    /\ CollectorInit
    /\ TsdbInit
    /\ \E scrape_interval \in ScrapeIntervals, local_tsdb \in BOOLEAN :
           LoopStart(scrape_interval, local_tsdb)
    /\ EventInit
    /\ CliInit
    /\ AppInit
    /\ ConcInit

AgentNext ==
    \/ TickerTick
    \/ \E o \in CollectOutcomes : Collect(o.ok, o.elapsed)
    \/ TickEnd
    \/ HealthHandler
    \/ CtrlC
    \/ RuntimeDrop

AgentSpec == AgentSpecInit /\ [][AgentNext]_vars

\* The local TSDB on a filesystem whose operations can fail.
FaultNext ==
    \/ \E samples \in FaultBatches, fault \in Faults : WriteSamplesFailing(samples, fault)
    \/ \E samples \in FaultBatches : WriteSamples(samples)
    \/ FlushCurrent

FaultSpec == StatusSpecInit /\ [][FaultNext]_vars

\* The pruner on a filesystem of which removals can fail.
PruneNext ==
    \/ \E samples \in FaultBatches : WriteSamples(samples)
    \/ FlushCurrent
    \/ \E now_ms \in NowInputs, failing \in SUBSET list_blocks(disk) :
           PruneFailing(now_ms, failing)

PruneSpec == TsdbSpecInit /\ [][PruneNext]_vars

\* The overrides of the configuration file and of the command line applied in turn.
ConfigNext == \E overrides \in OverrideInputs : ApplyOverrides(overrides)

ConfigSpec == StatusSpecInit /\ [][ConfigNext]_vars

\* The commands of the command line that read and write the configuration file.
CliNext ==
    \/ \E set \in MetricSets, enable \in BOOLEAN : ToggleMetricSet(set, enable)
    \/ \E pair \in ConfigPairs : ConfigSet(pair)
    \/ \E cli \in CliOverrides, address \in ServerAddresses : ServerConnect(cli, address)
    \/ \E cli \in CliOverrides : ServerDisconnect(cli)

CliSpec == StatusSpecInit /\ [][CliNext]_vars

\* The ticks of an agent whose collectors are cpu and app.
AppNext ==
    \E gap \in TickGaps, stat \in StatInputs, resp \in Responses : AppTick(gap, stat, resp)

AppSpec == AgentSpecInit /\ [][AppNext]_vars

\* Two write_samples calls and a snapshot_current or flush_current call, interleaved.
ConcNext ==
    \/ \E t \in Writers : \E samples \in WriterBatches[t] : CallWriteSamples(t, samples)
    \/ \E op \in ReaderOps : CallReader(op)
    \/ \E t \in Callers : Lock(t)
    \/ \E t \in Writers : WriteStep(t)
    \/ ReaderStep

ConcSpec == TsdbSpecInit /\ [][ConcNext]_vars

\* The event worker and the drain of the GPU collector.
EventNext ==
    \/ \E result \in WaitResults : EventWait(result)
    \/ EventSend
    \/ DrainEvents

EventSpec == StatusSpecInit /\ [][EventNext]_vars

(***************************************************************************)
(* Properties of the scheduler                                             *)
(***************************************************************************)
Range(seq) == {seq[i] : i \in DOMAIN seq}

\* The device passes the two filters of the claims: load below 0.95 and a kind the
\* task allows.
Qualifies(task, dev) ==
    /\ FLt(dev.current_load, F(95, -2))
    /\ (task.preferred_kinds.some => dev.kind \in task.preferred_kinds.v)

QualifyingIds(task, devs) == {id \in DOMAIN devs : Qualifies(task, devs[id])}

InUnitInterval(x) == FGe(x, Zero) /\ FLe(x, F(1, 0))

\* The devices as they were right after attempt i of the last operation.
DevicesAfter(i) == IF i < Len(obs.trace) THEN obs.trace[i + 1].devs ELSE devices

\* C1: whenever some registered device has current_load < 0.95 and a kind the task
\* allows, pick_device_for_task returns a device id, for every task body.
C1_PickNeverAbsent ==
    \A shape \in TaskShapes :
        QualifyingIds(shape, devices) # {}
            => pick_device_for_task(devices, dev_order, shape).some

\* C2: every assignment leaves the chosen device's current_load in [0, 1], and the
\* load after it exceeds the load before it by at most 0.5.
C2_LoadStaysInUnitInterval ==
    \A i \in DOMAIN obs.trace :
        obs.trace[i].picked.some =>
            LET d      == obs.trace[i].picked.v
                before == obs.trace[i].devs[d].current_load
                after  == DevicesAfter(i)[d].current_load
            IN  /\ InUnitInterval(after)
                /\ FLe(FSub(after, before), F(5, -1))

\* The load-cap example: A is a GPU at load 0.9 and B a GPU at load 0.96.
LoadCapExample(devs) ==
    /\ DOMAIN devs = {"A", "B"}
    /\ devs["A"].kind = "Gpu" /\ devs["A"].current_load = F(9, -1)
    /\ devs["B"].kind = "Gpu" /\ devs["B"].current_load = F(96, -2)

\* The task of attempt i of the last operation is in the pending queue afterwards.
LeftQueued(i) ==
    IF obs.op = "submit"
    THEN pending_tasks # <<>> /\ pending_tasks[Len(pending_tasks)] = obs.trace[i].task
    ELSE obs.trace[i].task \in Range(pending_tasks)

\* C3: a submit or a tick never assigns a task to a device whose load at decision time
\* is >= 0.95 or whose kind the task's preferred_kinds excludes; when these filters
\* exclude every device the task is queued; with A at 0.90 and B at 0.96 the pick is A.
C3_FiltersRespected ==
    \A i \in DOMAIN obs.trace :
        LET a == obs.trace[i]
        IN  /\ a.picked.some =>
                   /\ a.picked.v \in DOMAIN a.devs
                   /\ ~FGe(a.devs[a.picked.v].current_load, F(95, -2))
                   /\ (a.task.preferred_kinds.some =>
                           a.devs[a.picked.v].kind \in a.task.preferred_kinds.v)
            /\ QualifyingIds(a.task, a.devs) = {} => (~a.picked.some /\ LeftQueued(i))
            /\ (/\ LoadCapExample(a.devs)
                /\ (a.task.preferred_kinds.some => "Gpu" \in a.task.preferred_kinds.v))
                   => a.picked = Some("A")

\* A task was queued by a submit because both GPUs were at or above the cap.
C3_Witness ==
    /\ obs.op = "submit" /\ obs.status = 200 /\ ~obs.assigned.some
    /\ obs.task.preferred_kinds = Some({"Gpu"})
    /\ DOMAIN devices = {"A", "B"}
    /\ \A id \in DOMAIN devices :
           devices[id].kind = "Gpu" /\ FGe(devices[id].current_load, F(95, -2))
    /\ pending_tasks = <<obs.task>>

\* The load register_assignment leaves on a device: min(1, load + min(0.5, est / peak)).
ExpectedLoad(task, dev) ==
    FMin(FAdd(dev.current_load,
              FMin(FDiv(task.est_flops, FMul(dev.peak_flops_tflops, F(1, 12))), F(5, -1))),
         F(1, 0))

\* C4: a submission answers (Assigned, d) exactly when pick_device_for_task returns d in
\* the state at submission; then only d's load changes, to register_assignment's value,
\* and the queue is unchanged.  Otherwise it answers (Queued, none), the task is appended
\* at the tail of the queue and no device changes.
C4_SubmitOutcome ==
    [][(obs'.op = "submit" /\ obs'.status = 200) =>
          LET task == obs'.task
              pick == pick_device_for_task(devices, dev_order, task)
          IN  /\ obs'.assigned = pick
              /\ DOMAIN devices' = DOMAIN devices
              /\ IF pick.some
                 THEN /\ pending_tasks' = pending_tasks
                      /\ \A id \in DOMAIN devices :
                             devices'[id] =
                                 IF id = pick.v
                                 THEN [devices[id] EXCEPT
                                          !.current_load = ExpectedLoad(task, devices[id])]
                                 ELSE devices[id]
                 ELSE /\ pending_tasks' = Append(pending_tasks, task)
                      /\ devices' = devices]_vars

\* A submission was assigned while an earlier task was waiting in the queue.
C4_Witness ==
    /\ obs.op = "submit" /\ obs.status = 200 /\ obs.assigned.some
    /\ pending_tasks # <<>>

\* The tasks of a queue that the attempts of tr left unplaced.
Unplaced(queue, tr) ==
    SelectSeq(queue, LAMBDA t : \E i \in DOMAIN tr : tr[i].task = t /\ ~tr[i].picked.some)

\* C5: a tick attempts each task that was queued at its start exactly once, in FIFO
\* order; afterwards the queue holds exactly the tasks it could not place, in their
\* original relative order, and is no longer than before.
C5_TickSinglePass ==
    [][obs'.op = "tick" =>
          LET tr == obs'.trace
          IN  /\ [i \in DOMAIN tr |-> tr[i].task] = pending_tasks
              /\ \A i \in DOMAIN tr :
                     /\ tr[i].picked = pick_device_for_task(tr[i].devs, dev_order, tr[i].task)
                     /\ tr[i].devs = IF i = 1 THEN devices
                                     ELSE IF tr[i - 1].picked.some
                                          THEN register_assignment(tr[i - 1].devs,
                                                   tr[i - 1].picked.v, tr[i - 1].task)
                                          ELSE tr[i - 1].devs
              /\ pending_tasks' = Unplaced(pending_tasks, tr)
              /\ Len(pending_tasks') <= Len(pending_tasks)]_vars

\* A tick placed the second of two queued tasks and left the first one queued.
C5_Witness ==
    /\ obs.op = "tick"
    /\ Len(obs.trace) = 2
    /\ ~obs.trace[1].picked.some
    /\ obs.trace[2].picked.some
    /\ pending_tasks = <<obs.trace[1].task>>

\* The placement example: A = (gpu, 100 TFLOPS, load 0.1, 50..250 W) and
\* B = (gpu, 50 TFLOPS, load 0.1, 40..150 W).
PlacementExample(devs) ==
    /\ DOMAIN devs = {"A", "B"}
    /\ devs["A"] = Device("A", "Gpu", F(100, 0), F(50, 0), F(250, 0), F(1, -1))
    /\ devs["B"] = Device("B", "Gpu", F(50, 0), F(40, 0), F(150, 0), F(1, -1))

\* C6: pick_device_for_task returns a device whose score is maximal among the devices
\* that pass the kind and load filters, and is absent only if none passes them; in the
\* placement example with a High task of 1e13 flops and 1e9 bytes it returns A.
C6_PickIsArgmax ==
    \A i \in DOMAIN obs.trace :
        LET a == obs.trace[i]
        IN  /\ a.picked.some =>
                   /\ a.picked.v \in QualifyingIds(a.task, a.devs)
                   /\ \A id \in QualifyingIds(a.task, a.devs) :
                          FGe(Score(a.task, a.devs[a.picked.v]), Score(a.task, a.devs[id]))
            /\ ~a.picked.some => QualifyingIds(a.task, a.devs) = {}
            /\ (/\ PlacementExample(a.devs)
                /\ a.task.est_flops = F(1, 13) /\ a.task.est_bytes = F(1, 9)
                /\ a.task.latency_class = "High")
                   => a.picked = Some("A")

BoundToLoopback(listen) ==
    \/ listen.form = "v4" /\ listen.ip[1] = 127
    \/ listen.form = "v6" /\ listen.ip = <<0, 0, 0, 0, 0, 0, 0, 1>>
    \/ listen.form = "name" /\ listen.name = "localhost"

SchedulerOn == config.orchestrator.some /\ config.orchestrator.v.enabled

LinesOf(dir) ==
    disk[dir].samples \o (IF current.some /\ current.v.dir = dir THEN current.v.buf ELSE <<>>)

\* C9: every sample write_samples accepted, in whatever timestamp order and however
\* interleaved with snapshot_current, flush_current and exports, is returned by
\* export_lines(from = ts, to = ts, metrics = [metric]) as its formatted line, as
\* long as no block has been pruned.
C9_ReplayLossless ==
    pruned = {} => \A i \in DOMAIN accepted :
        \A order \in Perms(list_blocks(disk)) :
            format_export_line(accepted[i]) \in
                Range(export_lines(Store, order,
                                   ExportQuery(Some(accepted[i].ts_ms), Some(accepted[i].ts_ms),
                                               Some(<<accepted[i].metric>>))).lines)

\* floor(t / BLOCK_DURATION) * BLOCK_DURATION
FloorStart(t) == (t \div BLOCK_DURATION) * BLOCK_DURATION

\* C10: the line of a sample with timestamp t, negative ones included, is stored in
\* the block directory named {start}-{end} with start = floor(t / 7,200,000) * 7,200,000
\* and end = start + 7,200,000, so that start <= t < end; and the windows of two
\* distinct block directories never overlap.
C10_BlockWindow ==
    /\ \A i \in DOMAIN accepted :
           LET t   == accepted[i].ts_ms
               dir == BlockDirName(FloorStart(t), FloorStart(t) + BLOCK_DURATION)
           IN  /\ FloorStart(t) <= t /\ t < FloorStart(t) + BLOCK_DURATION
               /\ dir \in DOMAIN disk
               /\ disk[dir].start_ms = FloorStart(t)
               /\ disk[dir].end_ms = FloorStart(t) + BLOCK_DURATION
               /\ ToJson(accepted[i]) \in Range(LinesOf(dir))
    /\ \A d1, d2 \in DOMAIN disk :
           d1 # d2 => (disk[d1].end_ms <= disk[d2].start_ms
                         \/ disk[d2].end_ms <= disk[d1].start_ms)

\* The number of lines of a samples.jsonl whose metric field is name.
LinesWithMetric(lines, name) == Cardinality({i \in DOMAIN lines : lines[i].metric = name})

CountOf(counts, key) == IF key \in DOMAIN counts THEN counts[key] ELSE 0

\* C11: whenever meta.json and index.json of a block have been written, the
\* metric_counts entry of every metric name equals the number of lines of that
\* block's samples.jsonl, as it was at that moment, whose metric field is that name.
C11_MetricCountsMatchLines ==
    \A dir \in DOMAIN disk :
        disk[dir].index.some =>
            /\ disk[dir].meta = disk[dir].index
            /\ \A name \in {GpuPower, CpuLoad} :
                   CountOf(disk[dir].index.v.metric_counts, name)
                       = LinesWithMetric(disk[dir].lines_at_index, name)

\* C12: no run of the pruner removes the directory of the block that is open for
\* writes, whatever the writes it is interleaved with.
C12_OpenBlockNeverPruned ==
    [][(tsdb_obs'.op = "prune" /\ current.some /\ current.v.dir \in DOMAIN disk)
          => current.v.dir \in DOMAIN disk']_vars

EmptyStore ==
    [current |-> NoneWriter, disk |-> NoDisk, err |-> FALSE, failed |-> "none",
     fault |-> NoFault]

\* What the block of directory dir holds before a roll from directory from: the lines
\* of its samples.jsonl, and those of the write buffer when it is the open block.
LinesBefore(dir, from) ==
    IF dir = from THEN disk[from].samples \o current.v.buf
    ELSE IF dir \in DOMAIN disk THEN disk[dir].samples
    ELSE <<>>

\* A write_samples call of the one sample s that found the open block's window not
\* to contain s.ts_ms and returned Ok.
Rolled(s) ==
    /\ tsdb_obs'.op = "write_samples"
    /\ accepted' = accepted \o <<s>>
    /\ current.some
    /\ current.v.dir \in DOMAIN disk
    /\ NeedsNew(current, s.ts_ms)

\* The old block is finalised with its buffer flushed and both index files written
\* over exactly the old lines; the line of s is in the new block only.
FinalisedBefore(s) ==
    /\ current.v.dir \in DOMAIN disk'
    /\ disk'[current.v.dir].meta = Some(current.v.meta)
    /\ disk'[current.v.dir].index = Some(current.v.meta)
    /\ disk'[current.v.dir].lines_at_index = disk[current.v.dir].samples \o current.v.buf
    /\ current'.some
    /\ current'.v.dir = BlockDirName(WindowStart(s.ts_ms), WindowStart(s.ts_ms) + BLOCK_DURATION)
    /\ current'.v.dir \in DOMAIN disk'
    /\ disk'[current'.v.dir].samples \o current'.v.buf
         = LinesBefore(current'.v.dir, current.v.dir) \o <<ToJson(s)>>

\* Example E5: a sample at 1,000,000 and then one at 7,201,000 written to an empty store.
RollFirst == Sample(CpuLoad, {}, 1000000, F(2, 0))
RollSecond == Sample(CpuLoad, {}, 7201000, F(2, 0))

RollDirs == {BlockDirName(0, BLOCK_DURATION), BlockDirName(BLOCK_DURATION, 2 * BLOCK_DURATION)}

\* The two directories, the first finalised with one line, the second open with one
\* sample that a flush puts in its samples.jsonl.
RollLeaves(r) ==
    /\ ~r.err
    /\ DOMAIN r.disk = RollDirs
    /\ r.disk[BlockDirName(0, BLOCK_DURATION)].samples = <<ToJson(RollFirst)>>
    /\ r.disk[BlockDirName(0, BLOCK_DURATION)].index.some
    /\ r.disk[BlockDirName(0, BLOCK_DURATION)].index.v.samples = 1
    /\ r.current.some
    /\ r.current.v.dir = BlockDirName(BLOCK_DURATION, 2 * BLOCK_DURATION)
    /\ r.current.v.meta.samples = 1
    /\ r.disk[r.current.v.dir].samples \o r.current.v.buf = <<ToJson(RollSecond)>>
    /\ snapshot_current(r).disk[r.current.v.dir].samples = <<ToJson(RollSecond)>>

C14_SnapshotIdempotent ==
    tsdb_obs.op = "snapshot_current" =>
        /\ snapshot_current(Store) = Store
        /\ snapshot_current(snapshot_current(Store)).disk = disk

\* A snapshot of an open block that has lines and counts them in its index.
C14_Witness ==
    /\ tsdb_obs.op = "snapshot_current"
    /\ current.some
    /\ current.v.dir \in DOMAIN disk
    /\ disk[current.v.dir].samples # <<>>
    /\ disk[current.v.dir].index = Some(current.v.meta)

\* The number of times x occurs in seq.
Occurrences(seq, x) == Cardinality({i \in DOMAIN seq : seq[i] = x})

\* from <= ts <= to with an absent bound unbounded, and the metric equal to a filter or
\* starting with the prefix of a filter prefix*.
Requested(s, q) ==
    /\ q.from.some => q.from.v <= s.ts_ms
    /\ q.to.some => s.ts_ms <= q.to.v
    /\ q.metrics.some =>
           \E i \in DOMAIN q.metrics.v :
               IF EndsWithStar(q.metrics.v[i])
               THEN StartsWith(s.metric, TrimEndStars(q.metrics.v[i]))
               ELSE s.metric = q.metrics.v[i]

\* lines is, up to the order of the blocks, the rendering of the samples of stored
\* that q requests.
ExactlyRequested(lines, stored, q) ==
    /\ \A i \in DOMAIN lines : \E j \in DOMAIN stored : lines[i] = format_export_line(stored[j])
    /\ \A j \in DOMAIN stored :
           Occurrences(lines, format_export_line(stored[j]))
               = Cardinality({k \in DOMAIN stored :
                                 /\ Requested(stored[k], q)
                                 /\ format_export_line(stored[k]) = format_export_line(stored[j])})

ExampleGpu == Sample(GpuPower, {<<"uuid", "U">>, <<"index", "0">>}, 100, F(120, 0))
ExampleCpu == Sample(CpuLoad, {}, 150, F(2, 0))
ExampleQuery == ExportQuery(Some(0), Some(200), Some(<< <<"gpu_", "*">> >>))

\* gpu_power{index="0",uuid="U"} 100 120.000000
ExampleLine ==
    [metric |-> GpuPower, labels |-> << <<"index", "0">>, <<"uuid", "U">> >>, ts_ms |-> 100,
     value |-> [text |-> "", negative |-> FALSE, millionths |-> 120000000]]

ExampleExport ==
    \A order \in Perms({BlockDirName(0, BLOCK_DURATION)}) :
        export_lines(write_samples(EmptyStore, <<ExampleGpu, ExampleCpu>>),
                     order, ExampleQuery).lines = <<ExampleLine>>

\* C15: export_lines(from, to, filters) returns exactly the stored samples (none of
\* them pruned) with from <= ts <= to whose metric equals a filter or starts with the
\* prefix of a filter prefix*, each rendered once as name{k="v",...} ts_ms value with
\* the labels sorted by key; gpu_power{uuid=U,index=0} = 120 at 100 and cpu_load = 2.0
\* at 150 exported with (0, 200, ["gpu_*"]) give the one line of gpu_power.
C15_ExportExactlyRequested ==
    /\ ExampleExport
    /\ (tsdb_obs.op = "export_lines" /\ pruned = {})
           => ExactlyRequested(tsdb_obs.lines, accepted, tsdb_obs.query)

\* The number of flags of a snapshot that are set.
FlagsSet(v) ==
    (IF v.disk_degraded THEN 1 ELSE 0) + (IF v.network_degraded THEN 1 ELSE 0)
      + (IF v.swap_degraded THEN 1 ELSE 0)

\* C16: every StatusSnapshot that snapshot() returns, also when the degradation setters
\* run during the call, has degradation_score equal to the number of its own three
\* flags that are set.
C16_ScoreCountsOwnFlags ==
    snap.n = 13 => snap.v.degradation_score = FlagsSet(snap.v)

\* The memory group of a host summary.
MemoryGroup(h) == <<h.mem_total_bytes, h.mem_used_bytes, h.mem_free_bytes, h.swap_used_bytes>>

\* The ring after the first n record_error calls.
RingAfter(n) == SubSeq(recorded, IF n > 10 THEN n - 9 ELSE 1, n)

\* Each section of v is a value that its setters leave whole: a memory summary as it
\* was passed, a list that was passed, a package list with one entry of a passed
\* reading for each package, the ring as it was after some record_error call.
Untorn(v) ==
    /\ MemoryGroup(v.host) \in
           {MemoryGroup(HostMetrics)}
             \cup {<<Some(m.total), Some(m.used), Some(m.free), Some(m.swap)>> : m \in MemoryInputs}
    /\ v.cpu_temperatures \in {<<>>} \cup TemperatureInputs
    /\ v.gpus \in {<<>>} \cup GpuStatusInputs
    /\ \A i \in DOMAIN v.cpu_package_power_watts :
           /\ v.cpu_package_power_watts[i] \in PackageInputs
           /\ \A j \in DOMAIN v.cpu_package_power_watts :
                  v.cpu_package_power_watts[i].package = v.cpu_package_power_watts[j].package
                      => i = j
    /\ \E n \in 0..Len(recorded) : v.last_errors = RingAfter(n)

\* C17: a snapshot() that runs while setters replace the per-socket power list, the
\* temperatures, the GPU records, the error ring or the host summary holds, for each
\* section, a whole value and never a mix of an old and a new one.
C17_SectionsNeverTorn == snap.n = 13 => Untorn(snap.v)

\* A returned snapshot during whose reads setters were called, with a memory summary,
\* a package list, temperatures, GPU records or errors in it.
C17_Witness ==
    /\ snap.n = 13
    /\ snap.to > snap.from
    /\ \/ snap.v.host.mem_total_bytes.some
       \/ snap.v.cpu_package_power_watts # <<>>
       \/ snap.v.cpu_temperatures # <<>>
       \/ snap.v.gpus # <<>>
       \/ snap.v.last_errors # <<>>

\* C18: after n record_error calls last_errors holds the most recent min(n, 10) errors
\* in insertion order: a full ring drops its oldest error.
C18_RingHoldsLastTen ==
    /\ status_state.last_errors = RingAfter(Len(recorded))
    /\ Len(status_state.last_errors) = (IF Len(recorded) < 10 THEN Len(recorded) ELSE 10)
    /\ snap.n = 13 => Len(snap.v.last_errors) <= 10

\* An eleventh error has pushed the first out of the ring.
C18_Witness ==
    /\ Len(recorded) = 11
    /\ Len(status_state.last_errors) = 10
    /\ status_state.last_errors[1] = recorded[2]
    /\ status_state.last_errors[10] = recorded[11]

\* C19: in every StatusSnapshot, also when set_node_power or set_app_metrics run during
\* the call, app_tokens_per_watt is absent when the snapshot's app_tokens_per_sec is
\* absent or its node_power_watts is absent or zero, and is otherwise the quotient of
\* the two.
C19_TokensPerWattOfOwnFields ==
    snap.n = 13 =>
        snap.v.app_tokens_per_watt =
            IF \/ ~snap.v.host.app_tokens_per_sec.some
               \/ ~snap.v.node_power_watts.some
               \/ snap.v.node_power_watts.v = Zero
            THEN NoneF64
            ELSE Some(FDiv(snap.v.host.app_tokens_per_sec.v, snap.v.node_power_watts.v))

\* C20: every counter the collectors export is non-decreasing from tick to tick,
\* whatever the raw readings do (grow, fall, wrap to 0, go missing): a reading that
\* moves backward adds nothing negative.
C20_CountersNeverDecrease ==
    [][/\ FGe(registry'.cpu_time_seconds_total, registry.cpu_time_seconds_total)
       /\ registry'.cpu_interrupts_total >= registry.cpu_interrupts_total
       /\ registry'.network_rx_bytes_total >= registry.network_rx_bytes_total
       /\ registry'.network_tx_bytes_total >= registry.network_tx_bytes_total
       /\ registry'.network_rx_errors_total >= registry.network_rx_errors_total
       /\ registry'.gpu_ecc_errors_total >= registry.gpu_ecc_errors_total]_vars

\* A source has moved backward after its counter had moved: the last reading kept is
\* below the counter.
C20_Witness ==
    \/ /\ "eth0" \in DOMAIN collectors.previous
       /\ collectors.previous["eth0"].rx < registry.network_rx_bytes_total
    \/ /\ "0:volatile" \in DOMAIN collectors.ecc_prev
       /\ collectors.ecc_prev["0:volatile"] < registry.gpu_ecc_errors_total
    \/ /\ collectors.cpu_prev.some
       /\ registry.cpu_interrupts_total > 0
       /\ collectors.cpu_prev.v.interrupts < registry.cpu_interrupts_total

\* C21: the first observation of a series only records the previous value: a collect
\* step that finds no previous value for its series (the interface, the ECC key,
\* /proc/stat) moves no counter.
C21_FirstObservationOnlyPrimes ==
    [][(\/ /\ "eth0" \notin DOMAIN collectors.previous
           /\ "eth0" \in DOMAIN collectors'.previous
        \/ /\ "0:volatile" \notin DOMAIN collectors.ecc_prev
           /\ "0:volatile" \in DOMAIN collectors'.ecc_prev
        \/ /\ ~collectors.cpu_prev.some
           /\ collectors'.cpu_prev.some)
       => registry' = registry]_vars

\* C22 as stated: a backward movement of the RAPL energy with a declared range R yields
\* the delta R - (prev - curr) for every prev, curr and R, a forward movement
\* curr - prev, a backward movement without a range 0.
WrapDelta(curr, prev, range) ==
    IF curr >= prev THEN curr - prev
    ELSE IF range.some THEN range.v - (prev - curr) ELSE 0

C22_WrapDeltaForEveryRange ==
    [][\A energy \in EnergyReadings, max_range \in RangeReadings, dt \in Durations :
          (RaplEmits(energy, dt) /\ CollectRapl(energy, max_range, dt))
          => registry'.cpu_package_power_watts =
                 PowerOf(WrapDelta(energy.v, collectors.last_energy_uj.v, max_range), dt)]_vars

\* C22, amended: the delta is R - (prev - curr) when R is at least the backward
\* movement prev - curr, and 0 when R is below it.
WrapDeltaWithinRange(curr, prev, range) ==
    IF curr >= prev THEN curr - prev
    ELSE IF range.some /\ range.v >= prev - curr THEN range.v - (prev - curr) ELSE 0

C22_WrapDeltaWithinRange ==
    [][\A energy \in EnergyReadings, max_range \in RangeReadings, dt \in Durations :
          (RaplEmits(energy, dt) /\ CollectRapl(energy, max_range, dt))
          => /\ registry'.cpu_package_power_watts =
                    PowerOf(WrapDeltaWithinRange(energy.v, collectors.last_energy_uj.v,
                                                 max_range), dt)
             /\ registry'.cpu_package_energy_joules_total
                    >= registry.cpu_package_energy_joules_total]_vars

\* The energy has gone from 10 to 5 with a range of 256 in one second: 251 microjoules.
C22_Witness ==
    /\ collectors.last_energy_uj = Some(5)
    /\ registry.cpu_package_power_watts = F(251, -6)


\* C23: ticks never overlap, and a tick whose work lasts longer than scrape_interval is
\* followed by exactly one tick that starts at once: a tick that starts with its
\* deadline already past comes directly after a tick whose work, from its start
\* (last_scrape_unix_ms) to its return, was longer than scrape_interval.
C23_NoCatchUpBurst ==
    [][(/\ tick_loop.pc = "tick"
        /\ tick_loop'.pc = "collect"
        /\ tick_loop.ticks > 0
        /\ clock > ticker.deadline)
       => clock - status_state.last_scrape_unix_ms > ticker.period]_vars

\* Every collect of the results succeeded.
AllOk(results) == \A k \in DOMAIN results : results[k].ok

\* C24: from the end of the first tick on, the health flag is true iff every collect of
\* the most recent completed tick succeeded, and /healthz answers 200 when the most
\* recent completed tick had no failure and 503 when it had one; before the first tick
\* has completed the flag holds the true it was created with.
C24_HealthOfLastTick ==
    /\ [](healthy = (tick_loop.ticks = 0 \/ AllOk(tick_loop.last)))
    /\ [][HealthHandler =>
            health_obs' = IF tick_loop.ticks = 0 \/ AllOk(tick_loop.last) THEN 200
                          ELSE 503]_vars

\* /healthz has answered 503 after a tick in which a collector failed.
C24_Witness ==
    /\ health_obs = 503
    /\ tick_loop.ticks > 0
    /\ ~AllOk(tick_loop.last)

\* The names of the collectors of the results, in order.
Invoked(results) == [k \in DOMAIN results |-> results[k].collector]

\* The last error of the ring.
Newest(s) == s.last_errors[Len(s.last_errors)]

\* C25: in every tick the registered collectors are invoked once each in registration
\* order, whatever earlier ones returned; a failing collect adds exactly 1 to
\* errors_total of its collector and one entry to last_errors, a successful one adds
\* nothing, and in both cases the loop goes on to the next collector.
C25_EveryCollectorOncePerTick ==
    /\ [](/\ Invoked(tick_loop.results) = SubSeq(Registered, 1, Len(tick_loop.results))
          /\ tick_loop.ticks > 0 => Invoked(tick_loop.last) = Registered)
    /\ [][\A o \in CollectOutcomes :
            Collect(o.ok, o.elapsed) =>
              /\ tick_loop'.pc = "collect"
              /\ tick_loop'.i = tick_loop.i + 1
              /\ \A c \in DOMAIN agent_metrics.agent_errors_total :
                    agent_metrics'.agent_errors_total[c] =
                        agent_metrics.agent_errors_total[c]
                          + (IF ~o.ok /\ c = Registered[tick_loop.i] THEN 1 ELSE 0)
              /\ o.ok => status_state'.last_errors = status_state.last_errors
              /\ ~o.ok =>
                    /\ Len(status_state'.last_errors) = Len(status_state.last_errors) + 1
                    /\ SubSeq(status_state'.last_errors, 1, Len(status_state.last_errors))
                           = status_state.last_errors
                    /\ Newest(status_state').collector = Registered[tick_loop.i]]_vars

\* A tick has completed in which the first collector failed and the second was invoked
\* all the same.
C25_Witness ==
    /\ tick_loop.ticks > 0
    /\ tick_loop.last = << [collector |-> "cpu", ok |-> FALSE],
                           [collector |-> "network", ok |-> TRUE] >>
    /\ agent_metrics.agent_errors_total["cpu"] >= 1
    /\ Len(status_state.last_errors) >= 1

\* C30: once the handling of the shutdown signal has completed, no block is open and the
\* collection task writes no further sample, so every accepted sample is in a finalised
\* block.
C30_NoWriteAfterShutdown ==
    /\ [](run.phase # "running" => ~current.some)
    /\ [][run.phase # "running" => accepted' = accepted]_vars

\* C26: the channel holds at most 256 records, gpu_events_total never decreases, and a
\* full channel does not block the worker: the send of a record to a full channel
\* completes without a drain, the oldest record making room for it.
C26_FullChannelNeverBlocks ==
    /\ Len(event_channel) <= EVENT_CHANNEL_CAPACITY
    /\ (event_worker.pc = "send" /\ Len(event_channel) = EVENT_CHANNEL_CAPACITY)
           => ENABLED EventSend

\* An interface's drop counter or the TCP retransmission counter has increased in the
\* run of the network collector that reads netdev and retrans_total.
NewDropsOrRetrans(netdev, retrans_total) ==
    \/ /\ netdev.some
       /\ \/ netdev.v.rx_dropped > EntryOrDefault(collectors.previous, "eth0").rx_dropped
          \/ netdev.v.tx_dropped > EntryOrDefault(collectors.previous, "eth0").tx_dropped
    \/ RetransDelta(collectors.prev_tcp_retrans, retrans_total) > 0

\* C27: after each run of the network collector network_degraded is true iff some
\* interface's rx or tx drop counter or the TCP retransmission counter increased during
\* that run; a later run without new drops or retransmissions sets it back to false.
C27_DegradedIffNewDrops ==
    [][\A data \in NetworkReadings, netdev \in NetDevReadings,
          retrans_total \in RetransReadings :
          CollectNetwork(data, netdev, retrans_total)
          => status_state'.network_degraded = NewDropsOrRetrans(netdev, retrans_total)]_vars

RECURSIVE PersistedLines(_, _)
\* The number of complete lines in the samples.jsonl of the directories dirs.
PersistedLines(fs, dirs) ==
    IF dirs = {} THEN 0
    ELSE Len(fs[CHOOSE d \in dirs : TRUE].samples)
           + PersistedLines(fs, dirs \ {CHOOSE d \in dirs : TRUE})

\* The lines that were waiting in the write buffer before the call.
BufferedBefore == IF current.some THEN Len(current.v.buf) ELSE 0

\* C28: a write_samples in which a filesystem operation fails returns an error and leaves
\* no partial line in samples.jsonl; when the creation of the block is what fails, no
\* sample of the call has reached a samples.jsonl.
C28_FailedWriteLeavesNoPartialLine ==
    [][(tsdb_obs'.op = "write_samples" /\ tsdb_obs'.failed # "none")
       => /\ ~tsdb_obs'.ok
          /\ \A d \in DOMAIN disk' : ~disk'[d].torn
          /\ tsdb_obs'.failed \in {"create_dir_all", "open"}
                 => PersistedLines(disk', DOMAIN disk')
                        <= PersistedLines(disk, DOMAIN disk) + BufferedBefore]_vars

\* The filesystem after the retention loop of a run of prune.
AfterRetention(now_ms, failing) ==
    RemoveDirs(disk, RetentionRemoves(disk, tsdb_config, now_ms, failing))

\* The start_ms of the block directory d.
StartOf(d) == SplitDash(d)[1][1].n

\* The directories the budget pass of a run of prune has deleted.
BudgetDeleted(now_ms, failing) == DOMAIN AfterRetention(now_ms, failing) \ DOMAIN disk'

\* The budget pass went no further than the budget needed: before the newest of the
\* deleted blocks was deleted the total was above the budget.
StoppedAtBudget(now_ms, failing) ==
    \A d \in BudgetDeleted(now_ms, failing) :
        (\A x \in BudgetDeleted(now_ms, failing) : StartOf(x) <= StartOf(d))
        => TotalBytes(disk', list_blocks(disk')) + dir_size_bytes(disk[d])
               > tsdb_config.max_disk_mb * 1048576

\* The budget pass deletes nothing when the total is within the budget.
NothingWithinBudget(now_ms, failing) ==
    TotalBytes(AfterRetention(now_ms, failing), list_blocks(AfterRetention(now_ms, failing)))
        <= tsdb_config.max_disk_mb * 1048576
    => BudgetDeleted(now_ms, failing) = {}

\* C29: the budget pass of prune deletes nothing when the total size is within
\* max_disk_mb * 1,048,576 bytes; otherwise it deletes blocks in increasing start_ms
\* order and stops at the first point where the rest is within the budget, so that no
\* block is deleted while a block with a smaller start_ms is kept.
C29_BudgetPruningOldestFirst ==
    [][\A now_ms \in NowInputs, failing \in SUBSET list_blocks(disk) :
          PruneFailing(now_ms, failing)
          => /\ NothingWithinBudget(now_ms, failing)
             /\ StoppedAtBudget(now_ms, failing)
             /\ \A d \in BudgetDeleted(now_ms, failing), e \in list_blocks(disk') :
                   StartOf(d) <= StartOf(e)]_vars

\* C29, amended: as above, but a block whose removal fails is kept and its size stays
\* in the total, and the pass goes on with the next block: no block is deleted while an
\* older block that could be removed is kept.
C29_BudgetPruningSkipsFailed ==
    [][\A now_ms \in NowInputs, failing \in SUBSET list_blocks(disk) :
          PruneFailing(now_ms, failing)
          => /\ NothingWithinBudget(now_ms, failing)
             /\ StoppedAtBudget(now_ms, failing)
             /\ BudgetDeleted(now_ms, failing) \cap failing = {}
             /\ \A d \in BudgetDeleted(now_ms, failing), e \in list_blocks(disk') \ failing :
                   StartOf(d) <= StartOf(e)]_vars

\* A run of prune has deleted a block and kept a newer one under a budget of 0.
C29_Witness ==
    /\ tsdb_obs.op = "prune"
    /\ tsdb_config.max_disk_mb = 0
    /\ pruned # {}
    /\ \E e \in list_blocks(disk) : \A d \in pruned : StartOf(d) < StartOf(e)

\* The value the field f takes from an override that is present.
OverrideValue(f, override) ==
    IF f \in {"node_power_envelope_watts", "orchestrator"} THEN Some(override.v)
    ELSE override.v

\* C31: apply_overrides replaces every field whose override is present with the value
\* of the override and leaves every field whose override is absent as it was; applying
\* the same overrides a second time changes nothing.
C31_OverridesReplaceOnlyPresent ==
    cli_obs.op = "apply_overrides"
    => /\ \A f \in ConfigFields :
            IF cli_obs.overrides[f].some
            THEN cli_config[f] = OverrideValue(f, cli_obs.overrides[f])
            ELSE cli_config[f] = cli_obs.before[f]
       /\ apply_overrides(cli_config, cli_obs.overrides) = cli_config

\* The command line has set managed_server on top of the overrides of the test.
C31_Witness ==
    /\ cli_obs.op = "apply_overrides"
    /\ cli_obs.n = 2
    /\ cli_obs.before = apply_overrides(DefaultAgentConfig, TestOverrides)
    /\ cli_obs.overrides = [NoOverrides EXCEPT !.managed_server = Some(NoneStr)]
    /\ cli_config.managed_server = NoneStr
    /\ cli_config.managed_node_id = Some("node")

\* The scheduler holds one record per id, under its own id.
OneRecordPerId ==
    /\ \A id \in DOMAIN devices : devices[id].id = id
    /\ Len(dev_order) = Cardinality(DOMAIN devices)
    /\ {dev_order[i] : i \in DOMAIN dev_order} = DOMAIN devices

\* The ids the step has passed to update_device.
UpdatedIds == IF obs'.op = "register" /\ obs'.status = 200 THEN {obs'.device.id} ELSE {}

\* C32: the ids the scheduler holds are the initial ones plus every id passed to
\* update_device, with one record per id: update_device(d) inserts or replaces the
\* record of d.id only, and neither submit nor tick nor update_device removes a device.
C32_DevicesOnlyUpserted ==
    /\ []OneRecordPerId
    /\ [][/\ DOMAIN devices' = DOMAIN devices \cup UpdatedIds
          /\ \A id \in UpdatedIds : devices'[id] = obs'.device
          /\ obs'.op = "register" => \A id \in DOMAIN devices \ UpdatedIds :
                                        devices'[id] = devices[id]]_vars

\* A heartbeat has replaced the record of A while B, registered before, is still held
\* and a task has been placed.
C32_Witness ==
    /\ obs.op = "register" /\ obs.status = 200
    /\ obs.device = Device("A", "Gpu", F(100, 0), F(50, 0), F(250, 0), F(9, -1))
    /\ DOMAIN devices = {"A", "B"}
    /\ devices["A"] = obs.device
    /\ submitted > 0

\* C33: within a tick last_scrape_unix_ms is written only after the collect of every
\* collector of that tick has returned, and every tick writes it, once, whether or not
\* a collector failed.
C33_LastScrapeAfterAllCollectors ==
    /\ [][status_state'.last_scrape_unix_ms # status_state.last_scrape_unix_ms
          => /\ tick_loop.pc = "collect"
             /\ [i \in DOMAIN tick_loop.results |-> tick_loop.results[i].collector]
                    = Registered
             /\ tick_loop'.ticks = tick_loop.ticks + 1]_vars
    /\ [][tick_loop'.ticks # tick_loop.ticks
          => /\ tick_loop'.ticks = tick_loop.ticks + 1
             /\ status_state'.last_scrape_unix_ms = tick_loop.ts_ms]_vars

\* The second tick, in which the cpu collector failed, has written its own start time.
C33_Witness ==
    /\ tick_loop.pc = "tick"
    /\ tick_loop.ticks = 2
    /\ tick_loop.last = <<[collector |-> "cpu", ok |-> FALSE],
                          [collector |-> "network", ok |-> TRUE]>>
    /\ status_state.last_scrape_unix_ms = tick_loop.ts_ms
    /\ tick_loop.ts_ms > 7170000

\* The lines of the open block: those of its samples.jsonl, then those in the buffer.
OpenBlockLines(st) ==
    (IF st.current.v.dir \in DOMAIN st.disk THEN st.disk[st.current.v.dir].samples ELSE <<>>)
      \o st.current.v.buf

\* A write of the sample s into the open block of Store carries on from its counts and
\* adds its line to the file (a file whose directory prune has removed is not followed).
CountsContinue(s, r) ==
    /\ r.current.some
    /\ r.current.v.dir = current.v.dir
    /\ r.current.v.meta.samples = current.v.meta.samples + 1
    /\ r.current.v.meta.metric_counts = Inc(current.v.meta.metric_counts, s.metric)
    /\ current.v.dir \in DOMAIN disk
           => OpenBlockLines(r) = Append(OpenBlockLines(Store), ToJson(s))

\* C34: an export neither finalises nor rolls the current block: when export_lines
\* returns the same block is open with its sample count and per-metric counts unchanged,
\* and a later write in the same window appends to the same samples.jsonl with the
\* counts continuing.
C34_ExportKeepsBlockOpen ==
    /\ [][tsdb_obs'.op = "export_lines" /\ tsdb_obs' # tsdb_obs
          => /\ current'.some = current.some
             /\ current'.v.dir = current.v.dir
             /\ current'.v.meta = current.v.meta]_vars
    /\ [](tsdb_obs.op = "export_lines" /\ current.some
          => \A s \in SampleInputs :
                ~NeedsNew(current, s.ts_ms) => CountsContinue(s, write_samples(Store, <<s>>)))

\* An export has returned two lines of the open block, which still counts two samples.
C34_Witness ==
    /\ tsdb_obs.op = "export_lines"
    /\ Len(tsdb_obs.lines) = 2
    /\ current.some
    /\ current.v.meta.samples = 2
    /\ current.v.dir \in DOMAIN disk
    /\ Len(disk[current.v.dir].samples) = 2

\* The lines of the block directory d: those of its samples.jsonl, then those the open
\* writer of d holds in its buffer.
BlockLines(d) ==
    disk[d].samples \o (IF current.some /\ current.v.dir = d THEN current.v.buf ELSE <<>>)

\* The lines the writer t has written so far that fall in the block directory d.
WrittenInto(t, d) ==
    LET InBlock(line) == disk[d].start_ms <= line.ts_ms /\ line.ts_ms < disk[d].end_ms
        lines == [i \in 1..(tsdb_tasks.pcs[t].i - 1) |-> ToJson(tsdb_tasks.pcs[t].samples[i])]
    IN  SelectSeq(lines, InBlock)

\* The lines of the writer t in the block d are next to each other, in batch order.
BatchContiguous(t, d) ==
    \E from \in 0..Len(BlockLines(d)) :
        /\ SubSeq(BlockLines(d), from + 1, from + Len(WrittenInto(t, d))) = WrittenInto(t, d)
        /\ \A i \in DOMAIN BlockLines(d) :
              BlockLines(d)[i].metric = WriterMetric[t]
              => from < i /\ i <= from + Len(WrittenInto(t, d))

\* C35: the calls on the open block exclude each other: of concurrent write_samples,
\* snapshot_current and flush_current calls at most one holds the block at a time, and
\* the lines of a write_samples batch that fall in a block are next to each other in
\* samples.jsonl, in the order of the batch.
C35_AppendsMutuallyExclusive ==
    /\ Cardinality({t \in Callers : tsdb_tasks.pcs[t].pc = "held"}) <= 1
    /\ \A t \in Writers, d \in DOMAIN disk : BatchContiguous(t, d)

\* Both writers have written two lines into the first block while the reader waited for
\* the mutex, which it now holds.
C35_Witness ==
    /\ tsdb_tasks.pcs["writer1"].pc = "done" /\ tsdb_tasks.pcs["writer1"].i = 3
    /\ tsdb_tasks.pcs["writer2"].pc = "done" /\ tsdb_tasks.pcs["writer2"].i = 3
    /\ tsdb_tasks.pcs["reader"].pc = "held"
    /\ \E d \in DOMAIN disk : Len(BlockLines(d)) = 4

\* The newest entry of the log of the ticks.
LastTick(log) == log[Len(log)]

\* C36: a tick in which the source of a collector could not be read (the app endpoint
\* unreachable, /proc/stat unreadable) has that collector return Err: the tick records an
\* error of the collector in last_errors, adds one to its errors_total and ends with the
\* health flag false.
C36_UnreadableSourceFailsTheTick ==
    [][app_log' # app_log
       => /\ ~LastTick(app_log').fetched
             => /\ ~LastTick(app_log').app_ok
                /\ \E k \in DOMAIN status_state'.last_errors :
                      /\ status_state'.last_errors[k].collector = "app"
                      /\ status_state'.last_errors[k].unix_ms = LastTick(app_log').ts_ms
                /\ agent_metrics'.agent_errors_total["app"]
                       = agent_metrics.agent_errors_total["app"] + 1
                /\ ~healthy'
          /\ ~LastTick(app_log').stat_read
             => /\ ~LastTick(app_log').cpu_ok
                /\ agent_metrics'.agent_errors_total["cpu"]
                       = agent_metrics.agent_errors_total["cpu"] + 1
                /\ ~healthy']_vars

\* The fetch of the tick i of the log failed.
FetchFailed(log, i) == ~log[i].fetched

\* C37: in a run of ticks whose fetch failed the app collector warns at the first tick of
\* the run and at no other; every tick whose fetch succeeded resets the suppression, so
\* the first failure after it warns again.
C37_OneWarnPerRunOfFailures ==
    \A i \in DOMAIN app_log :
        app_log[i].warn <=> (FetchFailed(app_log, i) /\ (i = 1 \/ ~FetchFailed(app_log, i - 1)))

\* The places of the task id in the queue, and the attempts of the trace that assigned it.
QueuedAt(queue, id) == {i \in DOMAIN queue : queue[i].id = id}

AssignedAt(trace, id) == {i \in DOMAIN trace : trace[i].task.id = id /\ trace[i].picked.some}

\* C38: tasks are conserved.  The queue holds submitted tasks, each once; a submission
\* either assigns its task to one registered device and leaves the queue alone, or
\* queues it once; a tick assigns a queued task at most once, to one registered device,
\* and the task is then gone from the queue, or keeps it queued once; nothing else
\* changes the queue, and an assigned task never comes back.
C38_TasksConserved ==
    /\ [](\A i \in DOMAIN pending_tasks :
             /\ pending_tasks[i].id \in 1..submitted
             /\ QueuedAt(pending_tasks, pending_tasks[i].id) = {i})
    /\ [][/\ submitted' = submitted + 1
             => /\ obs'.op = "submit" /\ obs'.task.id = submitted'
                /\ IF obs'.assigned.some
                   THEN obs'.assigned.v \in DOMAIN devices /\ pending_tasks' = pending_tasks
                   ELSE pending_tasks' = Append(pending_tasks, obs'.task)
          /\ submitted' = submitted
             => /\ \A i \in DOMAIN pending_tasks' :
                      QueuedAt(pending_tasks, pending_tasks'[i].id) # {}
                /\ \A i \in DOMAIN pending_tasks :
                      IF QueuedAt(pending_tasks', pending_tasks[i].id) # {}
                      THEN obs'.op = "tick" => AssignedAt(obs'.trace, pending_tasks[i].id) = {}
                      ELSE /\ obs'.op = "tick"
                           /\ Cardinality(AssignedAt(obs'.trace, pending_tasks[i].id)) = 1
                           /\ \A k \in AssignedAt(obs'.trace, pending_tasks[i].id) :
                                 obs'.trace[k].picked.v \in DOMAIN devices]_vars

\* A tick has assigned one of two queued tasks and kept the other queued.
C38_Witness ==
    /\ obs.op = "tick"
    /\ Len(pending_tasks) = 1
    /\ \E k \in DOMAIN obs.trace :
          obs.trace[k].picked.some /\ obs.trace[k].task.id # pending_tasks[1].id

\* C39: when a tick returns, no task left in the queue has a registered device of a kind
\* it allows with current_load < 0.95.
C39_TickLeavesNoPlaceableTask ==
    [][obs'.op = "tick"
       => \A i \in DOMAIN pending_tasks' :
             QualifyingIds(pending_tasks'[i], devices') = {}]_vars

\* The persisted configuration names a managed server.
Managed(file) == file.exists /\ "managed_server" \in DOMAIN file.keys

LocalControlOps == {"enable_metric_set", "disable_metric_set", "config_set"}

\* The arguments of `config set` that name a key and give it a value that parses.
ValidPairs ==
    {pair \in ConfigPairs : pair.eq /\ apply_config_kv(DefaultAgentConfig, pair.key, pair.val).some}

\* C40: while the configuration file names a managed server every local-control command
\* (enable-metric-set, disable-metric-set, config set) fails and leaves the file as it is;
\* server connect makes the file name the server and server disconnect makes it name
\* none, and while it names none the local-control commands succeed.
C40_ManagedNodeRefusesLocalControl ==
    /\ [](IF Managed(config_file)
          THEN /\ \A set \in MetricSets, enable \in BOOLEAN :
                     /\ ~command_toggle_metric_set(config_file, set, enable).ok
                     /\ command_toggle_metric_set(config_file, set, enable).file = config_file
               /\ \A pair \in ConfigPairs :
                     /\ ~command_config_set(config_file, pair).ok
                     /\ command_config_set(config_file, pair).file = config_file
          ELSE /\ \A set \in MetricSets, enable \in BOOLEAN :
                     command_toggle_metric_set(config_file, set, enable).ok
               /\ \A pair \in ValidPairs : command_config_set(config_file, pair).ok)
    /\ [][/\ (cli_obs'.op \in LocalControlOps /\ Managed(config_file))
             => ~cli_obs'.ok /\ config_file' = config_file
          /\ (cli_obs'.op \in LocalControlOps /\ ~cli_obs'.ok) => config_file' = config_file
          /\ (cli_obs'.op = "server_connect" /\ cli_obs' # cli_obs) => Managed(config_file')
          /\ (cli_obs'.op = "server_disconnect" /\ cli_obs' # cli_obs)
             => ~Managed(config_file')
          /\ (Managed(config_file) /\ ~Managed(config_file'))
             => cli_obs'.op = "server_disconnect"]_vars

\* disable-metric-set has failed on a node that server connect made managed, after a
\* metric set had been disabled while the node was standalone.
C40_Witness ==
    /\ cli_obs.op = "disable_metric_set"
    /\ ~cli_obs.ok
    /\ Managed(config_file)
    /\ "managed_last_contact_unix_ms" \in DOMAIN config_file.keys
    /\ config_file.keys["managed_server"] \in ServerAddresses
    /\ ~config_file.keys["enable_gpu"]

=============================================================================
